---- MODULE Spec2Model ----
(***************************************************************************)
(* Hybrid retrieval engine of the help-center platform: reciprocal rank    *)
(* fusion (services/collection_rag.py, routers/rag.py), the reranker       *)
(* (services/reranker.py) and the two retrieval orchestrators              *)
(* (CollectionRAGService.search and the /rag/search route), the markdown   *)
(* chunker (services/chunking.py) and the embedder, on its OpenAI and its  *)
(* local provider (services/embeddings.py), the index, upload and delete   *)
(* operations on the stores (services/indexers.py,                         *)
(* services/visa_indexer.py, routers/visa.py, routers/admin.py) and the    *)
(* ingestion runs (routers/ingestion.py).                                  *)
(*                                                                         *)
(* Scores are Python floats in the source; here they are exact rationals   *)
(* [num, den], compared by cross-multiplication.                           *)
(***************************************************************************)
EXTENDS Integers, Sequences, FiniteSets, TLC

VARIABLES
    \* the stores, owned by the ingestion / CRUD layer
    collections,    \* rows of table collections
    articles,       \* rows of tables articles and visa_articles
    chunks,         \* rows of table chunks
    chunks_visa,    \* rows of table chunks_visa
    visa_chunks,    \* rows of table visa_chunks
    meili,          \* Meilisearch: index name -> set of document ids
    \* one retrieval call
    pc,             \* position of the call in its handler
    request,        \* the arguments of the call
    collection,     \* the row get_collection returned, or None
    k,              \* rag.py: the clamped result bound
    vector_hits,    \* ranked hits of the vector search
    bm25_hits,      \* ranked hits of the lexical (Meilisearch) search
    fused_results,  \* collection_rag.py: value of reciprocal_rank_fusion(...)
    fused_hits,     \* rag.py: value of _reciprocal_rank_fusion(...)
    improved,       \* SpecFuse: the id whose rank the last step improved, or None
    calls,          \* the external calls made so far, in order
    failed,         \* the external calls that raised
    outcome,        \* "none", "returned" or "raised"
    result,         \* the returned hit list
    error,          \* the exception raised, or None
    \* one call of ChunkingService.to_chunks
    markdown_content,   \* the argument: the document as its lines
    newline_tokens,     \* tokens cl100k_base spends on a run of newlines
    processed_chunks,   \* the value returned, or None before the call
    \* EmbeddingsService and the interpreter process it runs in
    embed_model,        \* self.model
    embed_texts,        \* the argument of the embed call
    batch_status,       \* per batch task: "running", "done" or "failed"
    batch_results,      \* per batch task: the vectors it returned
    completed,          \* the batch tasks in the order they finished
    embeddings,         \* the value embed returned, or None
    str_hash,           \* hash() on strings in this interpreter process
    process,            \* number of the interpreter process
    rng_state,          \* state of numpy's global generator
    embed_log,          \* every (process, text, vector) a local embed returned
    \* the remote call of CohereReranker.rerank in the current search
    doc_texts,          \* the documents sent to the service, or None
    response,           \* the answer of the service, or None
    \* the indexing, upload and delete operations in flight, and the ingestion runs
    ops,                \* per operation: its handler, its document and its position
    article_lock,       \* article ids whose row an open transaction has locked
    _ingestion_running, \* routers/ingestion.py: the module-level flag
    tasks               \* per requested ingestion run: its position

storeVars == <<collections, articles, chunks, chunks_visa, visa_chunks, meili>>
fuseVars == <<k, vector_hits, bm25_hits, fused_results, fused_hits, improved>>
callVars == <<request, collection, calls, failed, outcome, result, error>>
chunkVars == <<markdown_content, newline_tokens, processed_chunks>>
embedVars == <<embed_model, embed_texts, batch_status, batch_results, completed,
               embeddings, str_hash, process, rng_state, embed_log>>
rerankVars == <<doc_texts, response>>
opVars == <<ops, article_lock, _ingestion_running, tasks>>
auxVars == <<chunkVars, embedVars, rerankVars, opVars>>
vars == <<storeVars, pc, fuseVars, callVars, auxVars>>

None == "None"

\* ------------------------------------------------------------------ bounds
MaxHits == 3
MaxTopK == 2
MaxLines == 4
MaxLocalTexts == 2
MaxProcesses == 2
MaxTexts == 201

\* ------------------------------------------------------- program constants
K_CONSTANT == 60
max_tokens == 900
batch_size == 100
RERANK_TEXT_LIMIT == 4000
SMALL_DIMENSIONS == 1536
LARGE_DIMENSIONS == 3072
RAG_MIN_K == 1
RAG_MAX_K == 10

\* ------------------------------------------------------------- rationals
Rat(n, d) == [num |-> n, den |-> d]
Zero == Rat(0, 1)
RatAdd(a, b) == Rat(a.num * b.den + b.num * a.den, a.den * b.den)
RatEq(a, b) == a.num * b.den = b.num * a.den
RatGeq(a, b) == a.num * b.den >= b.num * a.den
RatGt(a, b) == a.num * b.den > b.num * a.den

\* ------------------------------------------------------------- sequences
Range(s) == {s[i] : i \in DOMAIN s}
Ids(hits) == {hits[i].id : i \in DOMAIN hits}
Take(s, n) == IF n <= 0 THEN <<>> ELSE SubSeq(s, 1, IF n < Len(s) THEN n ELSE Len(s))
Max(a, b) == IF a >= b THEN a ELSE b
Min(a, b) == IF a <= b THEN a ELSE b
InjSeqs(S, n) ==
    {s \in UNION {[1..m -> S] : m \in 0..n} :
        \A i, j \in DOMAIN s : i # j => s[i] # s[j]}

\* ------------------------------------------------ reciprocal rank fusion
\* {hit['id']: i + 1 for i, hit in enumerate(hits)}: a later entry with the
\* same id overwrites an earlier one.
RankOf(hits, id) ==
    CHOOSE i \in DOMAIN hits :
        /\ hits[i].id = id
        /\ \A j \in DOMAIN hits : hits[j].id = id => j <= i

\* Insertion order of the keys of the all_hits dict: first occurrence of each
\* id, the vector hits before the lexical ones.
RECURSIVE KeyOrder(_, _)
KeyOrder(hits, seen) ==
    IF hits = <<>> THEN <<>>
    ELSE IF Head(hits).id \in seen THEN KeyOrder(Tail(hits), seen)
         ELSE <<Head(hits).id>> \o KeyOrder(Tail(hits), seen \cup {Head(hits).id})

\* The hit object all_hits keeps for an id in collection_rag.py: every vector
\* hit is assigned (the last one stays), a lexical hit only if the id is new.
AllHitsObject(vector, bm25, id) ==
    IF id \in Ids(vector) THEN vector[RankOf(vector, id)]
    ELSE LET first == CHOOSE i \in DOMAIN bm25 :
                          /\ bm25[i].id = id
                          /\ \A j \in DOMAIN bm25 : bm25[j].id = id => i <= j
         IN bm25[first]

\* The hit object all_hits keeps for an id in rag.py: the first one seen in
\* vector_hits + bm25_hits.
RagAllHitsObject(vector, bm25, id) ==
    LET all == vector \o bm25
        first == CHOOSE i \in DOMAIN all :
                     /\ all[i].id = id
                     /\ \A j \in DOMAIN all : all[j].id = id => i <= j
    IN all[first]

\* Mutants of RrfScore: the lexical rank taken 0-based; the rank subtracted.
RrfScore_ZeroBasedBm25(vector, bm25, k_constant, id) ==
    LET s1 == IF id \in Ids(vector)
                  THEN Rat(1, k_constant + RankOf(vector, id))
                  ELSE Zero
    IN IF id \in Ids(bm25)
           THEN RatAdd(s1, Rat(1, k_constant + RankOf(bm25, id) - 1))
           ELSE s1

RrfScore_Subtract(vector, bm25, k_constant, id) ==
    LET s1 == IF id \in Ids(vector)
                  THEN Rat(1, k_constant - RankOf(vector, id))
                  ELSE Zero
    IN IF id \in Ids(bm25)
           THEN RatAdd(s1, Rat(1, k_constant - RankOf(bm25, id)))
           ELSE s1

\* score = 0.0; += 1/(k_constant + vector rank); += 1/(k_constant + bm25 rank)
RrfScore(vector, bm25, k_constant, id) ==
    LET s0 == Zero
        s1 == IF id \in Ids(vector)
                  THEN RatAdd(s0, Rat(1, k_constant + RankOf(vector, id)))
                  ELSE s0
        s2 == IF id \in Ids(bm25)
                  THEN RatAdd(s1, Rat(1, k_constant + RankOf(bm25, id)))
                  ELSE s1
    IN s2

\* Mutant of InsertDesc: x goes before the elements with an equal key.
RECURSIVE InsertDesc_TiesFirst(_, _, _)
InsertDesc_TiesFirst(sorted, x, score) ==
    IF sorted = <<>> THEN <<x>>
    ELSE IF RatGt(score[Head(sorted)], score[x])
         THEN <<Head(sorted)>> \o InsertDesc_TiesFirst(Tail(sorted), x, score)
         ELSE <<x>> \o sorted

\* One step of a stable descending sort: x goes after every element whose
\* key is greater than or equal to its own.
RECURSIVE InsertDesc(_, _, _)
InsertDesc(sorted, x, score) ==
    IF sorted = <<>> THEN <<x>>
    ELSE IF RatGeq(score[Head(sorted)], score[x])
         THEN <<Head(sorted)>> \o InsertDesc(Tail(sorted), x, score)
         ELSE <<x>> \o sorted

\* sorted(keys, key=lambda x: rrf_scores[x], reverse=True): Python's sort is
\* stable, also with reverse=True.
RECURSIVE SortedDesc(_, _, _)
SortedDesc(keys, score, acc) ==
    IF keys = <<>> THEN acc
    ELSE SortedDesc(Tail(keys), score, InsertDesc(acc, Head(keys), score))

\* CollectionRAGService.reciprocal_rank_fusion
reciprocal_rank_fusion(vector, bm25, k_constant) ==
    LET keys == KeyOrder(vector \o bm25, {})
        rrf_scores == [id \in Range(keys) |-> RrfScore(vector, bm25, k_constant, id)]
        sorted_ids == SortedDesc(keys, rrf_scores, <<>>)
    IN [i \in DOMAIN sorted_ids |->
            [rrf_score |-> rrf_scores[sorted_ids[i]]]
                @@ AllHitsObject(vector, bm25, sorted_ids[i])]

\* routers/rag.py _reciprocal_rank_fusion: the same scores, the hit's score
\* field overwritten, the first kk ids kept.
rag_reciprocal_rank_fusion(vector, bm25, kk, k_constant) ==
    LET keys == KeyOrder(vector \o bm25, {})
        rrf_scores == [id \in Range(keys) |-> RrfScore(vector, bm25, k_constant, id)]
        sorted_ids == Take(SortedDesc(keys, rrf_scores, <<>>), kk)
    IN [i \in DOMAIN sorted_ids |->
            [score |-> rrf_scores[sorted_ids[i]]]
                @@ RagAllHitsObject(vector, bm25, sorted_ids[i])]

\* ---------------------------------------------------------------------
\* The stores.  Chunk ids and article ids are separate key spaces: a
\* vector hit carries chunks.chunk_id as its id, a Meilisearch document
\* carries str(article_id) (IndexerService._index_to_meilisearch).
\* ---------------------------------------------------------------------
CollectionRows ==
    { [id |-> "col_hc", collection_key |-> "help_center",
       embedding_model |-> "text-embedding-3-small",
       embedding_dimensions |-> SMALL_DIMENSIONS,
       meili_index_name |-> "articles", is_active |-> TRUE],
      [id |-> "col_visa", collection_key |-> "visa",
       embedding_model |-> "text-embedding-3-large",
       embedding_dimensions |-> LARGE_DIMENSIONS,
       meili_index_name |-> "visa_articles", is_active |-> TRUE],
      [id |-> "col_kb", collection_key |-> "kb",
       embedding_model |-> "text-embedding-3-small",
       embedding_dimensions |-> SMALL_DIMENSIONS,
       meili_index_name |-> "kb_articles", is_active |-> TRUE],
      [id |-> "col_arch", collection_key |-> "archive",
       embedding_model |-> "text-embedding-3-small",
       embedding_dimensions |-> SMALL_DIMENSIONS,
       meili_index_name |-> "archive_articles", is_active |-> FALSE] }

\* A stored text is written as the name of what it is the text of and its
\* number of characters; a prefix of it has the same name and fewer
\* characters.
Text(of, chars) == [of |-> <<of>>, chars |-> chars]
EmptyText == [of |-> <<>>, chars |-> 0]

ArticleRows ==
    { [id |-> "a1", table |-> "articles", collection_id |-> "col_hc",
       title |-> Text("title a1", 20), content_md |-> Text("content a1", 10000)],
      [id |-> "a2", table |-> "articles", collection_id |-> "col_hc",
       title |-> EmptyText, content_md |-> Text("content a2", 300)],
      [id |-> "k1", table |-> "articles", collection_id |-> "col_kb",
       title |-> Text("title k1", 20), content_md |-> Text("content k1", 300)],
      [id |-> "v1", table |-> "visa_articles", collection_id |-> "col_visa",
       title |-> Text("title v1", 20), content_md |-> Text("content v1", 5000)] }

ChunkRows ==
    { [chunk_id |-> "c1", article_id |-> "a1", text |-> Text("text c1", 3990)],
      [chunk_id |-> "c2", article_id |-> "a1", text |-> Text("text c2", 4200)],
      [chunk_id |-> "c3", article_id |-> "a2", text |-> Text("text c3", 300)],
      [chunk_id |-> "c4", article_id |-> "k1", text |-> Text("text c4", 300)] }

ChunkVisaRows ==
    { [chunk_id |-> "cv1", article_id |-> "v1", collection_id |-> "col_visa",
       text |-> Text("text cv1", 4200)] }

VisaChunkRows ==
    { [chunk_id |-> "vc1", article_id |-> "v1", text |-> Text("text vc1", 300)] }

MeiliIndexes ==
    [name \in {"articles", "kb_articles", "visa_articles", "archive_articles"} |->
        IF name = "articles" THEN {"a1", "a2"}
        ELSE IF name = "kb_articles" THEN {"k1"}
        ELSE IF name = "visa_articles" THEN {"v1"}
        ELSE {}]

StoreInit ==
    /\ collections = CollectionRows
    /\ articles = ArticleRows
    /\ chunks = ChunkRows
    /\ chunks_visa = ChunkVisaRows
    /\ visa_chunks = VisaChunkRows
    /\ meili = MeiliIndexes

NoRequest == [api |-> None]

\* No to_chunks call is modelled.
ChunkIdle ==
    /\ markdown_content = <<>>
    /\ newline_tokens = 0
    /\ processed_chunks = None

\* No embed call is modelled.
EmbedIdle ==
    /\ embed_model = None
    /\ embed_texts = <<>>
    /\ batch_status = <<>>
    /\ batch_results = <<>>
    /\ completed = <<>>
    /\ embeddings = None
    /\ str_hash = None
    /\ process = 0
    /\ rng_state = None
    /\ embed_log = {}

\* The rerank service has not been called.
RerankIdle ==
    /\ doc_texts = None
    /\ response = None

OpIdle ==
    /\ ops = <<>>
    /\ article_lock = {}
    /\ _ingestion_running = FALSE
    /\ tasks = <<>>

AuxIdle == ChunkIdle /\ EmbedIdle /\ RerankIdle /\ OpIdle

CallIdle ==
    /\ request = NoRequest
    /\ collection = None
    /\ calls = <<>>
    /\ failed = {}
    /\ outcome = "none"
    /\ result = <<>>
    /\ error = None

\* ---------------------------------------------------------------------
\* Specification SpecFuse: the two fusion functions on arbitrary ranked
\* lists without repeated ids.
\* ---------------------------------------------------------------------
FuseIds == {"A", "B", "C", "D"}

VectorHit(id) == [id |-> id, source |-> "vector"]
Bm25Hit(id) == [id |-> id, source |-> "bm25"]
VectorList(ids) == [i \in DOMAIN ids |-> VectorHit(ids[i])]
Bm25List(ids) == [i \in DOMAIN ids |-> Bm25Hit(ids[i])]

FuseInit ==
    /\ pc = "input"
    /\ k \in 1..MaxTopK
    /\ \E ids \in InjSeqs(FuseIds, MaxHits) : vector_hits = VectorList(ids)
    /\ \E ids \in InjSeqs(FuseIds, MaxHits) : bm25_hits = Bm25List(ids)
    /\ fused_results = <<>>
    /\ fused_hits = <<>>
    /\ improved = None
    /\ StoreInit
    /\ CallIdle
    /\ AuxIdle

Refuse(vector, bm25) ==
    /\ fused_results' = reciprocal_rank_fusion(vector, bm25, K_CONSTANT)
    /\ fused_hits' = rag_reciprocal_rank_fusion(vector, bm25, k, K_CONSTANT)

\* Both fusion functions are applied to the current lists.
ApplyFusion ==
    /\ pc = "input"
    /\ pc' = "fused"
    /\ Refuse(vector_hits, bm25_hits)
    /\ UNCHANGED <<k, vector_hits, bm25_hits, improved, storeVars, callVars, auxVars>>

Swap(s, i) == [s EXCEPT ![i - 1] = s[i], ![i] = s[i - 1]]
InsertAt(s, pos, x) == SubSeq(s, 1, pos - 1) \o <<x>> \o SubSeq(s, pos, Len(s))

\* The hit at position i of the vector list moves one place earlier.
PromoteVector ==
    /\ pc = "fused"
    /\ improved = None
    /\ \E i \in 2..Len(vector_hits) :
        /\ vector_hits' = Swap(vector_hits, i)
        /\ improved' = vector_hits[i].id
        /\ Refuse(vector_hits', bm25_hits)
    /\ UNCHANGED <<pc, k, bm25_hits, storeVars, callVars, auxVars>>

\* The hit at position i of the lexical list moves one place earlier.
PromoteBm25 ==
    /\ pc = "fused"
    /\ improved = None
    /\ \E i \in 2..Len(bm25_hits) :
        /\ bm25_hits' = Swap(bm25_hits, i)
        /\ improved' = bm25_hits[i].id
        /\ Refuse(vector_hits, bm25_hits')
    /\ UNCHANGED <<pc, k, vector_hits, storeVars, callVars, auxVars>>

\* An id absent from the vector list is added to it at some position.
AddVector ==
    /\ pc = "fused"
    /\ improved = None
    /\ Len(vector_hits) < MaxHits
    /\ \E id \in FuseIds \ Ids(vector_hits), pos \in 1..Len(vector_hits) + 1 :
        /\ vector_hits' = InsertAt(vector_hits, pos, VectorHit(id))
        /\ improved' = id
        /\ Refuse(vector_hits', bm25_hits)
    /\ UNCHANGED <<pc, k, bm25_hits, storeVars, callVars, auxVars>>

\* An id absent from the lexical list is added to it at some position.
AddBm25 ==
    /\ pc = "fused"
    /\ improved = None
    /\ Len(bm25_hits) < MaxHits
    /\ \E id \in FuseIds \ Ids(bm25_hits), pos \in 1..Len(bm25_hits) + 1 :
        /\ bm25_hits' = InsertAt(bm25_hits, pos, Bm25Hit(id))
        /\ improved' = id
        /\ Refuse(vector_hits, bm25_hits')
    /\ UNCHANGED <<pc, k, vector_hits, storeVars, callVars, auxVars>>

FuseNext ==
    \/ ApplyFusion
    \/ PromoteVector
    \/ PromoteBm25
    \/ AddVector
    \/ AddBm25

SpecFuse == FuseInit /\ [][FuseNext]_vars

\* ---------------------------------------------------------------------
\* Specification Spec: retrieval calls against the stores.  A call is
\* either CollectionRAGService.search (collection_rag.py) or the route
\* rag_search (rag.py); it runs from "idle" to "done" one await at a time.
\* ---------------------------------------------------------------------
RequestKeys == {"help_center", "kb", "visa", "archive", "missing"}
Rerankers == {None, "no_client", "client"}
Queries == {<<>>, <<" ">>, <<"q">>, <<" ", "q", " ">>}

Init ==
    /\ StoreInit
    /\ CallIdle
    /\ AuxIdle
    /\ pc = "idle"
    /\ k = 0
    /\ vector_hits = <<>>
    /\ bm25_hits = <<>>
    /\ fused_results = <<>>
    /\ fused_hits = <<>>
    /\ improved = None

\* Mutant of Strip: the query is tested as received.
Strip_None(q) == q

\* str.strip() on a sequence of characters.
RECURSIVE LStrip(_)
LStrip(q) == IF q # <<>> /\ Head(q) = " " THEN LStrip(Tail(q)) ELSE q
Reverse(q) == [i \in DOMAIN q |-> q[Len(q) + 1 - i]]
Strip(q) == Reverse(LStrip(Reverse(LStrip(q))))

\* Mutant of get_collection: the is_active condition left out.
get_collection_AnyRow(key) == {c \in collections : c.collection_key = key}

\* get_collection: SELECT ... WHERE collection_key = $1 AND is_active = true
get_collection(key) ==
    {c \in collections : c.collection_key = key /\ c.is_active = TRUE}

\* search_chunks_1536: FROM chunks c JOIN articles a ... WHERE a.collection_id = $2
search_chunks_1536(collection_id) ==
    {c \in chunks :
        \E a \in articles : /\ a.table = "articles"
                            /\ a.id = c.article_id
                            /\ a.collection_id = collection_id}

\* search_chunks_visa: FROM chunks_visa c JOIN visa_articles va ... WHERE c.collection_id = $2
search_chunks_visa(collection_id) ==
    {c \in chunks_visa :
        /\ c.collection_id = collection_id
        /\ \E a \in articles : a.table = "visa_articles" /\ a.id = c.article_id}

\* rag_search: FROM chunks c JOIN articles a ... WHERE 1=1
rag_search_chunks ==
    {c \in chunks : \E a \in articles : a.table = "articles" /\ a.id = c.article_id}

\* ORDER BY c.embedding <=> $1 LIMIT n: some ranking of at most n of the rows
\* (which one depends on the stored vectors and on the index probes).
RankedRows(rows, n) == InjSeqs(rows, Min(Max(n, 0), Cardinality(rows)))

\* A row of the vector query as a hit: chunk_id as id, the article's id.
ArticleOf(article_id) == CHOOSE a \in articles : a.id = article_id

\* c.text as content_md, a.title
ChunkHits(ranked) ==
    [i \in DOMAIN ranked |->
        [id |-> ranked[i].chunk_id, article_id |-> ranked[i].article_id,
         content_md |-> ranked[i].text, title |-> ArticleOf(ranked[i].article_id).title,
         source |-> "vector"]]

\* A Meilisearch hit: the document's id is the article's id; title and
\* content_md are among the attributes retrieved.
DocHits(ranked) ==
    [i \in DOMAIN ranked |->
        [id |-> ranked[i], title |-> ArticleOf(ranked[i]).title,
         content_md |-> ArticleOf(ranked[i]).content_md, source |-> "bm25"]]

\* index.search(query, {'limit': n}): some ranking of at most n documents.
MeiliResults(index_name, n) ==
    InjSeqs(meili[index_name], Min(Max(n, 0), Cardinality(meili[index_name])))

\* What the remote rerank service may answer for n documents and top_n:
\* it raises, or returns at most top_n results, most relevant first, each an
\* index (possibly out of range) with a relevance score.
RerankResponses(n, top_n) ==
    {[raised |-> TRUE, results |-> <<>>]} \cup
    {[raised |-> FALSE,
      results |-> [i \in DOMAIN idx |->
                      [index |-> idx[i], relevance_score |-> Rat(1, i + 1)]]] :
        idx \in InjSeqs(0..n, Min(top_n, n))}

\* reranker.py lines 89-95: results mapped back to the documents, an
\* out-of-range index skipped.
RECURSIVE MapBack(_, _)
MapBack(documents, results) ==
    IF results = <<>> THEN <<>>
    ELSE LET idx == Head(results).index
         IN (IF 0 <= idx /\ idx < Len(documents)
                THEN <<[rerank_score |-> Head(results).relevance_score]
                         @@ documents[idx + 1]>>
                ELSE <<>>)
            \o MapBack(documents, Tail(results))

\* doc_text[:4000]
Truncate(text, n) == [text EXCEPT !.chars = Min(@, n)]

\* reranker.py lines 60-74: the title, an empty line and the content, or
\* whichever of the two is not empty.
DocText(doc) ==
    LET content == doc.content_md
        title == doc.title
    IN IF title.chars > 0 /\ content.chars > 0
          THEN [of |-> title.of \o content.of, chars |-> title.chars + 2 + content.chars]
          ELSE IF title.chars > 0 THEN title ELSE content

\* Mutant of DocTexts: a document longer than the limit is left out.
DocTexts_DropLong(documents) ==
    LET RECURSIVE Keep(_)
        Keep(docs) ==
            IF docs = <<>> THEN <<>>
            ELSE (IF DocText(Head(docs)).chars > RERANK_TEXT_LIMIT
                     THEN <<>> ELSE <<DocText(Head(docs))>>) \o Keep(Tail(docs))
    IN Keep(documents)

\* reranker.py lines 58-77: one text per document, in the documents' order.
DocTexts(documents) ==
    [i \in DOMAIN documents |-> Truncate(DocText(documents[i]), RERANK_TEXT_LIMIT)]

\* CohereReranker.rerank(query, documents, top_k); api is the answer of the
\* remote service, used only when the service is called.
CallsService(reranker, documents) == reranker = "client" /\ documents # <<>>

\* Mutant of rerank: the fallbacks return the documents untruncated.
rerank_WholeList(reranker, documents, top_k, api) ==
    IF reranker # "client" THEN documents
    ELSE IF documents = <<>> THEN <<>>
    ELSE IF api.raised THEN documents
    ELSE MapBack(documents, api.results)

rerank(reranker, documents, top_k, api) ==
    IF reranker # "client" THEN Take(documents, top_k)
    ELSE IF documents = <<>> THEN <<>>
    ELSE IF api.raised THEN Take(documents, top_k)
    ELSE MapBack(documents, api.results)

\* search, line 247: candidates = fused_results[:top_k * 2]
Candidates(fused, top_k) == Take(fused, top_k * 2)

\* Mutant of TopK: the fused list returned whole.
TopK_Whole(fused, top_k) == fused

\* search, line 252: return fused_results[:top_k]
TopK(fused, top_k) == Take(fused, top_k)

\* rag_search, line 42: k = max(1, min(payload.top_k, 10))
ClampK(top_k) == Max(RAG_MIN_K, Min(top_k, RAG_MAX_K))

Raise(what) ==
    /\ outcome' = "raised"
    /\ error' = what
    /\ pc' = "done"

Return(hits) ==
    /\ outcome' = "returned"
    /\ result' = hits
    /\ pc' = "done"

\* A caller invokes CollectionRAGService.search.
CallSearch ==
    /\ pc = "idle"
    /\ \E key \in RequestKeys, tk \in 0..MaxTopK, rr \in Rerankers :
        request' = [api |-> "search", query |-> <<"q">>, collection_key |-> key,
                    top_k |-> tk, reranker |-> rr]
    /\ pc' = "get_collection"
    /\ UNCHANGED <<auxVars, storeVars, fuseVars, collection, calls, failed, outcome, result, error>>

\* search, lines 214-215.  ValueError propagates through the outer except.
GetCollection ==
    /\ pc = "get_collection"
    /\ calls' = Append(calls, "get_collection")
    /\ LET rows == get_collection(request.collection_key)
       IN IF rows = {}
          THEN /\ Raise("ValueError: collection not found or inactive")
               /\ UNCHANGED <<collection, result>>
          ELSE /\ collection' = CHOOSE c \in rows : TRUE
               /\ pc' = "embed"
               /\ UNCHANGED <<outcome, result, error>>
    /\ UNCHANGED <<auxVars, storeVars, fuseVars, request, failed>>

\* search, lines 218-222.  embed([query]) returns one vector or raises; the
\* call is not guarded, so the exception leaves search.
EmbedQuery ==
    /\ pc = "embed"
    /\ calls' = Append(calls, "embed")
    /\ \/ /\ pc' = "vector_search"
          /\ UNCHANGED <<failed, outcome, error>>
       \/ /\ failed' = failed \cup {"embed"}
          /\ Raise("embed raised")
    /\ UNCHANGED <<auxVars, storeVars, fuseVars, request, collection, result>>

\* search, lines 224-234.  The query is not guarded either.
\* search, lines 226-234: the table of the vector query is chosen by the
\* collection's key.
vector_rows(col) ==
    IF col.collection_key = "visa"
    THEN search_chunks_visa(col.id)
    ELSE search_chunks_1536(col.id)

\* Mutant of VectorSearch: the query consumes the rows it returns.
VectorSearch_Consuming ==
    /\ pc = "vector_search"
    /\ calls' = Append(calls, "vector")
    /\ LET rows == vector_rows(collection)
       IN \/ /\ \E ranked \in RankedRows(rows, request.top_k) :
                   /\ vector_hits' = ChunkHits(ranked)
                   /\ chunks' = chunks \ Range(ranked)
                   /\ chunks_visa' = chunks_visa \ Range(ranked)
             /\ pc' = "lexical_search"
             /\ UNCHANGED <<failed, outcome, error>>
          \/ /\ failed' = failed \cup {"vector"}
             /\ Raise("vector query raised")
             /\ UNCHANGED <<vector_hits, chunks, chunks_visa>>
    /\ UNCHANGED <<auxVars, collections, articles, visa_chunks, meili, k, bm25_hits,
                   fused_results, fused_hits, improved, request, collection, result>>

VectorSearch ==
    /\ pc = "vector_search"
    /\ calls' = Append(calls, "vector")
    /\ LET rows == vector_rows(collection)
       IN \/ /\ \E ranked \in RankedRows(rows, request.top_k) :
                   vector_hits' = ChunkHits(ranked)
             /\ pc' = "lexical_search"
             /\ UNCHANGED <<failed, outcome, error>>
          \/ /\ failed' = failed \cup {"vector"}
             /\ Raise("vector query raised")
             /\ UNCHANGED vector_hits
    /\ UNCHANGED <<auxVars, storeVars, k, bm25_hits, fused_results, fused_hits, improved,
                   request, collection, result>>

\* Mutant of LexicalSearch: the exception of the Meilisearch call is not caught.
LexicalSearch_Unguarded ==
    /\ pc = "lexical_search"
    /\ calls' = Append(calls, "lexical")
    /\ \/ /\ collection.meili_index_name \in DOMAIN meili
          /\ \E ranked \in MeiliResults(collection.meili_index_name, request.top_k * 2) :
                bm25_hits' = DocHits(ranked)
          /\ pc' = "fuse"
          /\ UNCHANGED <<failed, outcome, error>>
       \/ /\ failed' = failed \cup {"lexical"}
          /\ Raise("meilisearch raised")
          /\ UNCHANGED bm25_hits
    /\ UNCHANGED <<auxVars, storeVars, k, vector_hits, fused_results, fused_hits, improved,
                   request, collection, result>>

\* search_meilisearch, lines 128-144: any exception is logged and [] returned.
LexicalSearch ==
    /\ pc = "lexical_search"
    /\ calls' = Append(calls, "lexical")
    /\ \/ /\ collection.meili_index_name \in DOMAIN meili
          /\ \E ranked \in MeiliResults(collection.meili_index_name, request.top_k * 2) :
                bm25_hits' = DocHits(ranked)
          /\ UNCHANGED failed
       \/ /\ failed' = failed \cup {"lexical"}
          /\ bm25_hits' = <<>>
    /\ pc' = "fuse"
    /\ UNCHANGED <<auxVars, storeVars, k, vector_hits, fused_results, fused_hits, improved,
                   request, collection, outcome, result, error>>

\* search, lines 242-245.
Fuse ==
    /\ pc = "fuse"
    /\ fused_results' = reciprocal_rank_fusion(vector_hits, bm25_hits, K_CONSTANT)
    /\ pc' = IF request.reranker # None /\ fused_results' # <<>>
                THEN "rerank" ELSE "return"
    /\ UNCHANGED <<auxVars, storeVars, k, vector_hits, bm25_hits, fused_hits, improved, callVars>>

\* search, lines 247-249, with CohereReranker.rerank.
Rerank ==
    /\ pc = "rerank"
    /\ LET candidates == Candidates(fused_results, request.top_k)
       IN IF CallsService(request.reranker, candidates)
          THEN \E api \in RerankResponses(Len(candidates), request.top_k) :
                 /\ calls' = Append(calls, "rerank")
                 /\ doc_texts' = DocTexts(candidates)
                 /\ response' = api
                 /\ failed' = IF api.raised THEN failed \cup {"rerank"} ELSE failed
                 /\ Return(rerank(request.reranker, candidates, request.top_k, api))
          ELSE /\ Return(rerank(request.reranker, candidates, request.top_k,
                                [raised |-> FALSE, results |-> <<>>]))
               /\ UNCHANGED <<calls, failed, rerankVars, opVars>>
    /\ UNCHANGED <<chunkVars, embedVars, opVars, storeVars, fuseVars, request, collection, error>>

\* search, line 252.
ReturnTopK ==
    /\ pc = "return"
    /\ Return(TopK(fused_results, request.top_k))
    /\ UNCHANGED <<auxVars, storeVars, fuseVars, request, collection, calls, failed, error>>

\* A client posts to /rag/search.
CallRagSearch ==
    /\ pc = "idle"
    /\ \E q \in Queries, tk \in (-1..MaxTopK) \cup {RAG_MAX_K, RAG_MAX_K + 1} :
        request' = [api |-> "rag_search", query |-> q, collection_key |-> None,
                    top_k |-> tk, reranker |-> None]
    /\ pc' = "rag_start"
    /\ UNCHANGED <<auxVars, storeVars, fuseVars, collection, calls, failed, outcome, result, error>>

\* rag_search, lines 38-42.
RagStart ==
    /\ pc = "rag_start"
    /\ IF Strip(request.query) = <<>>
          THEN Return(<<>>) /\ UNCHANGED k
          ELSE /\ k' = ClampK(request.top_k)
               /\ pc' = "rag_vector"
               /\ UNCHANGED <<outcome, result>>
    /\ UNCHANGED <<auxVars, storeVars, vector_hits, bm25_hits, fused_results, fused_hits,
                   improved, request, collection, calls, failed, error>>

\* rag_search, lines 49-96: embedding and vector query inside one try.
RagVectorSearch ==
    /\ pc = "rag_vector"
    /\ \/ /\ calls' = calls \o <<"embed">>
          /\ failed' = failed \cup {"embed"}
          /\ vector_hits' = <<>>
       \/ /\ calls' = calls \o <<"embed", "vector">>
          /\ failed' = failed \cup {"vector"}
          /\ vector_hits' = <<>>
       \/ /\ calls' = calls \o <<"embed", "vector">>
          /\ \E ranked \in RankedRows(rag_search_chunks, k) :
                vector_hits' = ChunkHits(ranked)
          /\ UNCHANGED failed
    /\ pc' = "rag_bm25"
    /\ UNCHANGED <<auxVars, storeVars, k, bm25_hits, fused_results, fused_hits, improved,
                   request, collection, outcome, result, error>>

\* rag_search, lines 99-129: index 'articles', limit 2k, the first k hits kept.
RagBm25Search ==
    /\ pc = "rag_bm25"
    /\ calls' = Append(calls, "lexical")
    /\ \/ /\ \E ranked \in MeiliResults("articles", k * 2) :
                bm25_hits' = Take(DocHits(ranked), k)
          /\ UNCHANGED failed
       \/ /\ failed' = failed \cup {"lexical"}
          /\ bm25_hits' = <<>>
    /\ pc' = "rag_fuse"
    /\ UNCHANGED <<auxVars, storeVars, k, vector_hits, fused_results, fused_hits, improved,
                   request, collection, outcome, result, error>>

\* rag_search, lines 132-134.
RagFuse ==
    /\ pc = "rag_fuse"
    /\ fused_hits' = rag_reciprocal_rank_fusion(vector_hits, bm25_hits, k, K_CONSTANT)
    /\ Return(fused_hits')
    /\ UNCHANGED <<auxVars, storeVars, k, vector_hits, bm25_hits, fused_results, improved,
                   request, collection, calls, failed, error>>

\* The call is over; the next one starts from scratch.
Finish ==
    /\ pc = "done"
    /\ pc' = "idle"
    /\ k' = 0
    /\ vector_hits' = <<>>
    /\ bm25_hits' = <<>>
    /\ fused_results' = <<>>
    /\ fused_hits' = <<>>
    /\ request' = NoRequest
    /\ collection' = None
    /\ calls' = <<>>
    /\ failed' = {}
    /\ outcome' = "none"
    /\ result' = <<>>
    /\ error' = None
    /\ doc_texts' = None
    /\ response' = None
    /\ UNCHANGED <<chunkVars, embedVars, opVars, storeVars, improved>>

Next ==
    \/ CallSearch
    \/ GetCollection
    \/ EmbedQuery
    \/ VectorSearch
    \/ LexicalSearch
    \/ Fuse
    \/ Rerank
    \/ ReturnTopK
    \/ CallRagSearch
    \/ RagStart
    \/ RagVectorSearch
    \/ RagBm25Search
    \/ RagFuse
    \/ Finish

Spec == Init /\ [][Next]_vars

\* ------------------------------------------- ChunkingService.to_chunks
\* A document is the sequence of its lines.  A line is a record: kind
\* ("blank" for the empty line, "heading" for a line the header pattern
\* matches, "text" otherwise), the heading's level and stripped text, and
\* the number of tokens encode(line) yields.  No line of the model starts or
\* ends with white space.
BlankLine == [kind |-> "blank", level |-> 0, text |-> "", tokens |-> 0]
TextLine(text, tokens) == [kind |-> "text", level |-> 0, text |-> text, tokens |-> tokens]
HeadingLine(level, text) == [kind |-> "heading", level |-> level, text |-> text, tokens |-> 2]

HeadingLevels == 1..3
HeadingTexts == {"A", "B"}
LineAlphabet ==
    {BlankLine}
        \cup {TextLine("p", 1), TextLine("q", max_tokens - 2),
              TextLine("r", max_tokens - 1), TextLine("s", max_tokens + 1)}
        \cup {HeadingLine(l, t) : l \in HeadingLevels, t \in HeadingTexts}
Documents == UNION {[1..m -> LineAlphabet] : m \in 0..MaxLines}

\* markdown_content.split('\n'): the empty document is one empty line.  Each
\* line is tagged with its line number n, which the code does not use.
SplitLines(content) ==
    IF content = <<>> THEN <<[n |-> 1] @@ BlankLine>>
    ELSE [i \in DOMAIN content |-> [n |-> i] @@ content[i]]

\* Mutant of IsHeader: only '#' headings are recognised.
IsHeader_TopLevelOnly(line) == line.kind = "heading" /\ line.level = 1

\* re.match(r'^(#{1,6})\s+(.+)$', line)
IsHeader(line) == line.kind = "heading"

IsBlank(line) == line.kind = "blank"

\* '\n'.join(lines).strip(): blank lines at either end disappear.
RECURSIVE LStripLines(_)
LStripLines(text) ==
    IF text # <<>> /\ IsBlank(Head(text)) THEN LStripLines(Tail(text)) ELSE text
StripLines(text) == Reverse(LStripLines(Reverse(LStripLines(text))))

RECURSIVE SumTokens(_)
SumTokens(text) == IF text = <<>> THEN 0 ELSE Head(text).tokens + SumTokens(Tail(text))

\* len(self.encoding.encode(text)) of lines joined by newlines: the tokens
\* of the lines plus newline_tokens for each run of newlines between two
\* lines with content.
token_count(text) ==
    LET content == Cardinality({i \in DOMAIN text : ~IsBlank(text[i])})
    IN SumTokens(text) + (IF content > 1 THEN (content - 1) * newline_tokens ELSE 0)

\* ' > '.join(current_heading_path)
RECURSIVE JoinPath(_)
JoinPath(path) ==
    IF Len(path) <= 1 THEN path
    ELSE <<Head(path), " > ">> \o JoinPath(Tail(path))

\* Mutant of SaveChunk: the stripped text is not tested.
SaveChunk_Unchecked(chunk_list, current_chunk, current_heading_path) ==
    IF current_chunk = <<>> THEN chunk_list
    ELSE Append(chunk_list, [heading_path |-> JoinPath(current_heading_path),
                             text |-> StripLines(current_chunk)])

\* Lines 29-35, 54-60 and 70-76: the chunk is saved when its stripped text
\* is not empty.
SaveChunk(chunk_list, current_chunk, current_heading_path) ==
    IF current_chunk = <<>> THEN chunk_list
    ELSE LET chunk_text == StripLines(current_chunk)
         IN IF chunk_text # <<>>
            THEN Append(chunk_list, [heading_path |-> JoinPath(current_heading_path),
                                 text |-> chunk_text])
            ELSE chunk_list

\* Mutant of NewHeadingPath: the path is cut to level elements.
NewHeadingPath_KeepLevel(current_heading_path, level, heading_text) ==
    Take(current_heading_path, level) \o <<heading_text>>

\* current_heading_path[:level-1] + [heading_text]
NewHeadingPath(current_heading_path, level, heading_text) ==
    Take(current_heading_path, level - 1) \o <<heading_text>>

\* The loop over the lines, from line i on, and the save of the final chunk.
RECURSIVE LinePass(_, _, _, _, _, _)
LinePass(lines, i, chunk_list, current_chunk, current_heading_path, current_tokens) ==
    IF i > Len(lines) THEN SaveChunk(chunk_list, current_chunk, current_heading_path)
    ELSE LET line == lines[i]
             line_tokens == token_count(<<line>>)
         IN IF IsHeader(line)
            THEN LinePass(lines, i + 1,
                          SaveChunk(chunk_list, current_chunk, current_heading_path),
                          <<line>>,
                          NewHeadingPath(current_heading_path, line.level, line.text),
                          line_tokens)
            ELSE IF current_tokens + line_tokens > max_tokens /\ current_chunk # <<>>
            THEN LinePass(lines, i + 1,
                          SaveChunk(chunk_list, current_chunk, current_heading_path),
                          <<line>>, current_heading_path, line_tokens)
            ELSE LinePass(lines, i + 1, chunk_list, Append(current_chunk, line),
                          current_heading_path, current_tokens + line_tokens)

\* re.split(r'\n\s*\n', text) of a stripped text: the runs of lines between
\* runs of blank lines.
RECURSIVE Paragraphs(_)
Paragraphs(text) ==
    IF \A i \in DOMAIN text : ~IsBlank(text[i]) THEN <<text>>
    ELSE LET b == CHOOSE i \in DOMAIN text :
                      IsBlank(text[i]) /\ \A j \in 1..(i - 1) : ~IsBlank(text[j])
         IN <<SubSeq(text, 1, b - 1)>>
                \o Paragraphs(LStripLines(SubSeq(text, b, Len(text))))

\* Mutant of JoinParagraphs: only the first paragraph is kept.
JoinParagraphs_FirstOnly(paragraphs) == paragraphs[1]

\* '\n\n'.join(current_text): one empty line between two paragraphs.
RECURSIVE JoinParagraphs(_)
JoinParagraphs(paragraphs) ==
    IF Len(paragraphs) = 1 THEN paragraphs[1]
    ELSE paragraphs[1] \o <<[n |-> 0] @@ BlankLine>> \o JoinParagraphs(Tail(paragraphs))

\* The loop of _split_large_chunk over the paragraphs, from paragraph i on,
\* and the save of the final sub-chunk.
RECURSIVE ParagraphPass(_, _, _, _, _, _)
ParagraphPass(paragraphs, i, heading_path, sub_chunks, current_text, current_tokens) ==
    IF i > Len(paragraphs)
    THEN IF current_text # <<>>
         THEN Append(sub_chunks, [heading_path |-> heading_path,
                                  text |-> JoinParagraphs(current_text)])
         ELSE sub_chunks
    ELSE LET para == paragraphs[i]
             para_tokens == token_count(para)
         IN IF current_tokens + para_tokens > max_tokens /\ current_text # <<>>
            THEN ParagraphPass(paragraphs, i + 1, heading_path,
                               Append(sub_chunks, [heading_path |-> heading_path,
                                                   text |-> JoinParagraphs(current_text)]),
                               <<para>>, para_tokens)
            ELSE ParagraphPass(paragraphs, i + 1, heading_path, sub_chunks,
                               Append(current_text, para), current_tokens + para_tokens)

_split_large_chunk(chunk) ==
    ParagraphPass(Paragraphs(chunk.text), 1, chunk.heading_path, <<>>, <<>>, 0)

\* Lines 79-86: a chunk over the budget is replaced by its sub-chunks.
RECURSIVE PostProcess(_)
PostProcess(chunk_list) ==
    IF chunk_list = <<>> THEN <<>>
    ELSE (IF token_count(Head(chunk_list).text) > max_tokens
          THEN _split_large_chunk(Head(chunk_list))
          ELSE <<Head(chunk_list)>>) \o PostProcess(Tail(chunk_list))

to_chunks(content) == PostProcess(LinePass(SplitLines(content), 1, <<>>, <<>>, <<>>, 0))

FuseIdle ==
    /\ k = 0
    /\ vector_hits = <<>>
    /\ bm25_hits = <<>>
    /\ fused_results = <<>>
    /\ fused_hits = <<>>
    /\ improved = None

\* A ChunkingService with the default budget is given any document.
ChunkInit ==
    /\ pc = "chunk_input"
    /\ markdown_content \in Documents
    /\ newline_tokens \in 0..1
    /\ processed_chunks = None
    /\ StoreInit
    /\ CallIdle
    /\ FuseIdle
    /\ EmbedIdle
    /\ RerankIdle
    /\ OpIdle

ToChunks ==
    /\ pc = "chunk_input"
    /\ processed_chunks' = to_chunks(markdown_content)
    /\ pc' = "chunked"
    /\ UNCHANGED <<markdown_content, newline_tokens, storeVars, fuseVars, callVars,
                   embedVars, rerankVars, opVars>>

ChunkNext == ToChunks

SpecChunk == ChunkInit /\ [][ChunkNext]_vars

\* A line of blanks only: not empty, one token, and white space to strip()
\* and to the \s* of the paragraph pattern.
SpaceLine == [kind |-> "blank", level |-> 0, text |-> " ", tokens |-> 1]

BlankAlphabet ==
    {BlankLine, SpaceLine, TextLine("p", 1), TextLine("q", max_tokens - 2),
     HeadingLine(1, "A")}
BlankDocuments == UNION {[1..m -> BlankAlphabet] : m \in 0..MaxLines}

\* A ChunkingService with the default budget is given a document with
\* empty lines and lines of blanks.
BlankInit ==
    /\ pc = "chunk_input"
    /\ markdown_content \in BlankDocuments
    /\ newline_tokens \in 0..1
    /\ processed_chunks = None
    /\ StoreInit
    /\ CallIdle
    /\ FuseIdle
    /\ EmbedIdle
    /\ RerankIdle
    /\ OpIdle

SpecChunkBlank == BlankInit /\ [][ChunkNext]_vars

\* --------------------------------------- EmbeddingsService._embed_local
EmbeddingModels == {"text-embedding-3-small", "text-embedding-3-large"}

\* self.dimensions = 1536 if "small" in self.model else 3072
Dimensions(model) ==
    IF model = "text-embedding-3-small" THEN SMALL_DIMENSIONS ELSE LARGE_DIMENSIONS

LocalTexts == {"a", "b"}
LocalInputs == UNION {[1..m -> LocalTexts] : m \in 0..MaxLocalTexts}

\* A value of hash(text) is written hi * 2**32 + lo.
HashValues == [hi : 0..1, lo : 0..1]

\* The interpreter draws the key of its string hash when it starts
\* (no PYTHONHASHSEED is set): any function may be the process's hash().
StrHashes == [LocalTexts -> HashValues]

\* hash(text) % 2**32
Mod2_32(h) == h.lo

\* np.random.seed(seed): the state of the global generator afterwards.
Seed(state, seed) == [seed |-> seed, drawn |-> 0]

\* np.random.randn(n).astype(np.float32), normalised: the vector is fixed by
\* the state of the generator and n; the state advances by n draws.
Randn(state, n) == [seed |-> state.seed, from |-> state.drawn, dimensions |-> n]
AfterRandn(state, n) == [state EXCEPT !.drawn = @ + n]

\* The loop of _embed_local from text i on: <<embeddings, generator state>>.
RECURSIVE LocalPass(_, _, _, _)
LocalPass(texts, i, out, state) ==
    IF i > Len(texts) THEN <<out, state>>
    ELSE LET seeded == Seed(state, Mod2_32(str_hash[texts[i]]))
             embedding == Randn(seeded, Dimensions(embed_model))
         IN LocalPass(texts, i + 1, Append(out, embedding),
                      AfterRandn(seeded, Dimensions(embed_model)))

_embed_local(texts) == LocalPass(texts, 1, <<>>, rng_state)

\* An interpreter process with an EmbeddingsService on the local provider.
LocalInit ==
    /\ pc = "local"
    /\ embed_model \in EmbeddingModels
    /\ str_hash \in StrHashes
    /\ process = 1
    /\ rng_state = None
    /\ embed_log = {}
    /\ embed_texts = <<>>
    /\ embeddings = None
    /\ batch_status = <<>>
    /\ batch_results = <<>>
    /\ completed = <<>>
    /\ StoreInit
    /\ CallIdle
    /\ FuseIdle
    /\ ChunkIdle
    /\ RerankIdle
    /\ OpIdle

\* embed(texts) with settings.embeddings_provider = "local".
EmbedLocal ==
    /\ pc = "local"
    /\ \E texts \in LocalInputs :
          LET r == IF texts = <<>> THEN <<<<>>, rng_state>> ELSE _embed_local(texts)
          IN /\ embed_texts' = texts
             /\ embeddings' = r[1]
             /\ rng_state' = r[2]
             /\ embed_log' = embed_log \cup
                    {[process |-> process, text |-> texts[i], vector |-> r[1][i]] :
                        i \in DOMAIN texts}
    /\ UNCHANGED <<pc, embed_model, str_hash, process, batch_status, batch_results,
                   completed, storeVars, fuseVars, callVars, chunkVars, rerankVars, opVars>>

\* The service is started again in a new interpreter process.
RestartProcess ==
    /\ pc = "local"
    /\ process < MaxProcesses
    /\ process' = process + 1
    /\ str_hash' \in StrHashes
    /\ rng_state' = None
    /\ embed_texts' = <<>>
    /\ embeddings' = None
    /\ UNCHANGED <<pc, embed_model, embed_log, batch_status, batch_results,
                   completed, storeVars, fuseVars, callVars, chunkVars, rerankVars, opVars>>

LocalNext == EmbedLocal \/ RestartProcess

SpecEmbedLocal == LocalInit /\ [][LocalNext]_vars

\* -------------------------------------- EmbeddingsService._embed_openai
\* The texts of a call are numbered: text i of the model is the number i.
OpenAIInputs == {[i \in 1..n |-> i] : n \in 0..MaxTexts}

NumBatches(texts) == (Len(texts) + batch_size - 1) \div batch_size

\* [texts[i:i + batch_size] for i in range(0, len(texts), batch_size)]
Batches(texts) ==
    [b \in 1..NumBatches(texts) |->
        SubSeq(texts, (b - 1) * batch_size + 1, Min(b * batch_size, Len(texts)))]

\* openai.embeddings.create(input=batch, model=self.model): response.data
\* holds one embedding per input, in the order of the inputs.
process_batch(batch) ==
    [i \in DOMAIN batch |-> [embedding_of |-> batch[i], model |-> embed_model]]

\* Mutant of gather: the results in the order the tasks finished.
gather_CompletionOrder(results, order) == [i \in DOMAIN order |-> results[order[i]]]

\* asyncio.gather(*tasks): the results in the order of the tasks given,
\* whatever the order they finished in.
gather(results, order) == results

\* Mutant of GatherCanReturn: a task that raised counts as finished.
GatherCanReturn_Settled(status) == \A b \in DOMAIN status : status[b] # "running"

\* asyncio.gather returns once every task has returned.
GatherCanReturn(status) == \A b \in DOMAIN status : status[b] = "done"

\* all_embeddings.extend(batch_embeddings) over batch_results
RECURSIVE Flatten(_)
Flatten(results) ==
    IF results = <<>> THEN <<>> ELSE Head(results) \o Flatten(Tail(results))

\* An EmbeddingsService on the OpenAI provider.
EmbedInit ==
    /\ pc = "embed_idle"
    /\ embed_model \in EmbeddingModels
    /\ embed_texts = <<>>
    /\ batch_status = <<>>
    /\ batch_results = <<>>
    /\ completed = <<>>
    /\ embeddings = None
    /\ str_hash = None
    /\ process = 0
    /\ rng_state = None
    /\ embed_log = {}
    /\ StoreInit
    /\ CallIdle
    /\ FuseIdle
    /\ ChunkIdle
    /\ RerankIdle
    /\ OpIdle

embedFrame == <<embed_model, str_hash, process, rng_state, embed_log,
                storeVars, fuseVars, callVars, chunkVars, rerankVars, opVars>>

\* embed(texts): no texts return [] at once; otherwise one task per batch is
\* handed to asyncio.gather.
CallEmbed ==
    /\ pc = "embed_idle"
    /\ \E texts \in OpenAIInputs :
          /\ embed_texts' = texts
          /\ IF texts = <<>>
             THEN /\ embeddings' = <<>>
                  /\ pc' = "embed_returned"
                  /\ UNCHANGED <<batch_status, batch_results>>
             ELSE /\ batch_status' = [b \in 1..NumBatches(texts) |-> "running"]
                  /\ batch_results' = [b \in 1..NumBatches(texts) |-> <<>>]
                  /\ pc' = "gather"
                  /\ UNCHANGED embeddings
    /\ UNCHANGED <<completed, embedFrame>>

\* The provider call of batch b returns.
BatchReturns ==
    /\ pc \in {"gather", "embed_raised"}
    /\ \E b \in DOMAIN batch_status :
          /\ batch_status[b] = "running"
          /\ batch_status' = [batch_status EXCEPT ![b] = "done"]
          /\ batch_results' = [batch_results EXCEPT ![b] = process_batch(Batches(embed_texts)[b])]
          /\ completed' = Append(completed, b)
    /\ UNCHANGED <<pc, embed_texts, embeddings, embedFrame>>

\* The provider call of batch b raises.
BatchRaises ==
    /\ pc \in {"gather", "embed_raised"}
    /\ \E b \in DOMAIN batch_status :
          /\ batch_status[b] = "running"
          /\ batch_status' = [batch_status EXCEPT ![b] = "failed"]
          /\ completed' = Append(completed, b)
    /\ UNCHANGED <<pc, embed_texts, batch_results, embeddings, embedFrame>>

\* Every task returned: the results are flattened and returned.
GatherReturns ==
    /\ pc = "gather"
    /\ GatherCanReturn(batch_status)
    /\ embeddings' = Flatten(gather(batch_results, completed))
    /\ pc' = "embed_returned"
    /\ UNCHANGED <<embed_texts, batch_status, batch_results, completed, embedFrame>>

\* A task raised: gather, and with it embed, raises the exception; the
\* other tasks keep running.
GatherRaises ==
    /\ pc = "gather"
    /\ \E b \in DOMAIN batch_status : batch_status[b] = "failed"
    /\ pc' = "embed_raised"
    /\ UNCHANGED <<embed_texts, batch_status, batch_results, completed, embeddings,
                   embedFrame>>

EmbedNext ==
    \/ CallEmbed
    \/ BatchReturns
    \/ BatchRaises
    \/ GatherReturns
    \/ GatherRaises

SpecEmbed == EmbedInit /\ [][EmbedNext]_vars

\* ------------------------------------------------ claims on the fusion
\* 1-based position of id in a list without repeated ids.
Position(hits, id) == CHOOSE i \in DOMAIN hits : hits[i].id = id

\* The sum, over the lists that contain id, of 1/(60 + position).
ExpectedScore(id) ==
    LET inV == id \in Ids(vector_hits)
        inB == id \in Ids(bm25_hits)
        pv == 60 + Position(vector_hits, id)
        pb == 60 + Position(bm25_hits, id)
    IN IF inV /\ inB THEN Rat(pv + pb, pv * pb)
       ELSE IF inV THEN Rat(1, pv)
       ELSE IF inB THEN Rat(1, pb)
       ELSE Zero

InputIds == Ids(vector_hits) \cup Ids(bm25_hits)

\* C1: the fusion yields exactly one entry per distinct id of the two input
\* lists and none for any other id, each with score equal to the sum over
\* the lists containing the id of 1/(60 + 1-based position); rag.py's variant
\* returns the first k of these entries.
C1_FusedEntries ==
    pc = "fused" =>
        /\ Ids(fused_results) = InputIds
        /\ Len(fused_results) = Cardinality(InputIds)
        /\ \A i \in DOMAIN fused_results :
              RatEq(fused_results[i].rrf_score, ExpectedScore(fused_results[i].id))
        /\ Len(fused_hits) = Min(k, Cardinality(InputIds))
        /\ \A i \in DOMAIN fused_hits :
              /\ fused_hits[i].id = fused_results[i].id
              /\ RatEq(fused_hits[i].score, ExpectedScore(fused_hits[i].id))

\* An id ranked in both lists at different positions, and one ranked in
\* only one list, have been fused.
C1_Witness ==
    /\ pc = "fused"
    /\ \E id \in Ids(vector_hits) \cap Ids(bm25_hits) :
          Position(vector_hits, id) # Position(bm25_hits, id)
    /\ Ids(vector_hits) \ Ids(bm25_hits) # {}
    /\ Ids(bm25_hits) \ Ids(vector_hits) # {}
    /\ Len(fused_results) = Cardinality(InputIds)

\* First-seen rank of an id: vector-list order, then lexical-only ids in
\* lexical-list order.
FirstSeen(id) ==
    IF id \in Ids(vector_hits) THEN Position(vector_hits, id)
    ELSE Len(vector_hits) + Position(bm25_hits, id)

IdsOf(hits) == [i \in DOMAIN hits |-> hits[i].id]

\* C2: the fused output is in non-increasing score order, entries with equal
\* scores keep first-seen order, and vector [A, B, C] with lexical [B, A, D]
\* fuses to A, B, C, D with A and B tied above C and D.
C2_OrderedStable ==
    pc = "fused" =>
        /\ \A i, j \in DOMAIN fused_results :
              i < j =>
                /\ RatGeq(fused_results[i].rrf_score, fused_results[j].rrf_score)
                /\ RatEq(fused_results[i].rrf_score, fused_results[j].rrf_score)
                      => FirstSeen(fused_results[i].id) < FirstSeen(fused_results[j].id)
        /\ \A i, j \in DOMAIN fused_hits :
              i < j =>
                /\ RatGeq(fused_hits[i].score, fused_hits[j].score)
                /\ RatEq(fused_hits[i].score, fused_hits[j].score)
                      => FirstSeen(fused_hits[i].id) < FirstSeen(fused_hits[j].id)
        /\ (IdsOf(vector_hits) = <<"A", "B", "C">> /\ IdsOf(bm25_hits) = <<"B", "A", "D">>)
              => /\ IdsOf(fused_results) = <<"A", "B", "C", "D">>
                 /\ RatEq(fused_results[1].rrf_score, fused_results[2].rrf_score)
                 /\ RatGt(fused_results[2].rrf_score, fused_results[3].rrf_score)
                 /\ RatEq(fused_results[3].rrf_score, fused_results[4].rrf_score)

\* The lists of the example have been fused.
C2_Witness ==
    /\ pc = "fused"
    /\ IdsOf(vector_hits) = <<"A", "B", "C">>
    /\ IdsOf(bm25_hits) = <<"B", "A", "D">>
    /\ IdsOf(fused_results) = <<"A", "B", "C", "D">>

\* Fused score of an id in a fused list, 0 when the id has no entry.
FusedScore(fused, id) ==
    IF id \in Ids(fused) THEN fused[Position(fused, id)].rrf_score ELSE Zero

\* C3: a step that moves an id earlier in one input list, or adds it to a
\* list it was absent from, with the other list unchanged, never lowers the
\* id's fused score.
C3_Monotone ==
    [][(pc = "fused" /\ pc' = "fused" /\ improved' # None)
          => RatGeq(FusedScore(fused_results', improved'),
                    FusedScore(fused_results, improved'))]_vars

\* An id was moved earlier in (or added to) a list and its score rose.
C3_Witness ==
    /\ pc = "fused"
    /\ improved # None
    /\ improved \in Ids(vector_hits) \cap Ids(bm25_hits)
    /\ Len(vector_hits) >= 2
    /\ RatGt(FusedScore(fused_results, improved), Rat(1, 60))

\* ----------------------------------------- claims on the retrieval calls
Returned == pc = "done" /\ outcome = "returned"
IsSearch == request.api = "search"
IsRag == request.api = "rag_search"

\* C4: content returned by both the vector and the lexical search appears
\* once in the returned hits: no vector hit and lexical hit of one result
\* refer to the same article.
C4_NoContentTwice ==
    Returned =>
        \A i, j \in DOMAIN result :
            (result[i].source = "vector" /\ result[j].source = "bm25")
                => result[i].article_id # result[j].id

\* C5: when the lexical search raised, the call returns, the lexical list
\* is empty and, without a reranker, the returned hits are the vector hits
\* in vector order, truncated to the result bound.
C5_LexicalFailure ==
    (pc = "done" /\ "lexical" \in failed) =>
        /\ outcome = "returned"
        /\ bm25_hits = <<>>
        /\ request.reranker = None =>
             LET bound == IF IsRag THEN k ELSE request.top_k
                 kept == SubSeq(vector_hits, 1, Min(bound, Len(vector_hits)))
             IN /\ IdsOf(result) = IdsOf(kept)
                /\ \A i \in DOMAIN result :
                      /\ result[i].source = "vector"
                      /\ result[i].article_id = kept[i].article_id

\* A search without reranker whose lexical search raised returned two
\* vector hits.
C5_Witness ==
    /\ Returned
    /\ IsSearch
    /\ "lexical" \in failed
    /\ request.reranker = None
    /\ Len(vector_hits) = 2
    /\ Len(result) = 2

\* C6: when embedding the query raised, the call does not raise: the vector
\* search is skipped and the result is built from the lexical hits only.
C6_EmbedFailure ==
    (pc = "done" /\ "embed" \in failed) =>
        /\ outcome = "returned"
        /\ "vector" \notin Range(calls)
        /\ vector_hits = <<>>
        /\ \A i \in DOMAIN result : result[i].source = "bm25"

\* C7: when the vector-store query of CollectionRAGService.search raised,
\* that branch contributes an empty list and the call returns the result
\* obtained from the lexical hits.
C7_VectorFailure ==
    (pc = "done" /\ IsSearch /\ "vector" \in failed) =>
        /\ outcome = "returned"
        /\ vector_hits = <<>>
        /\ \A i \in DOMAIN result : result[i].source = "bm25"

\* C8: a search on a key with no active row in collections raises the
\* not-found error after the collection lookup alone: no embedding, vector,
\* lexical or rerank call is made and no hit is produced.
C8_UnresolvedCollection ==
    (IsSearch /\ pc # "get_collection"
        /\ ~\E c \in collections :
               c.collection_key = request.collection_key /\ c.is_active) =>
        /\ pc = "done"
        /\ outcome = "raised"
        /\ error = "ValueError: collection not found or inactive"
        /\ calls = <<"get_collection">>
        /\ vector_hits = <<>> /\ bm25_hits = <<>> /\ fused_results = <<>>
        /\ result = <<>>

\* A search on the inactive collection has raised.
C8_Witness ==
    /\ pc = "done"
    /\ IsSearch
    /\ request.collection_key = "archive"
    /\ \E c \in collections : c.collection_key = "archive" /\ ~c.is_active
    /\ outcome = "raised"

\* C9: a search that fused its lists and was given a reranker that has no
\* client, or whose remote call raised, returns the fused order truncated to
\* top_k.
C9_RerankerFallback ==
    (pc = "done" /\ IsSearch /\ request.reranker # None
        /\ "lexical" \in Range(calls)
        /\ (request.reranker = "no_client" \/ "rerank" \in failed)) =>
        /\ outcome = "returned"
        /\ result = SubSeq(fused_results, 1, Min(request.top_k, Len(fused_results)))

\* The remote rerank call raised on a fused list longer than top_k.
C9_Witness ==
    /\ Returned
    /\ IsSearch
    /\ request.reranker = "client"
    /\ "rerank" \in failed
    /\ Len(fused_results) > request.top_k
    /\ Len(result) = request.top_k

C11_EmptyQuery ==
    (IsRag /\ pc # "rag_start" /\ \A i \in DOMAIN request.query : request.query[i] = " ") =>
        /\ pc = "done"
        /\ outcome = "returned"
        /\ error = None
        /\ result = <<>>
        /\ calls = <<>>

\* rag_search returned on a query made of blanks only.
C11_Witness ==
    /\ Returned
    /\ IsRag
    /\ request.query = <<" ">>
    /\ calls = <<>>

\* The collection that owns a chunk: through its article for table chunks,
\* by its own column for table chunks_visa.
ChunkOwners(chunk_id) ==
    {a.collection_id : a \in {a \in articles : \E c \in chunks :
                                   c.chunk_id = chunk_id /\ c.article_id = a.id}}
    \cup {c.collection_id : c \in {c \in chunks_visa : c.chunk_id = chunk_id}}

\* The collection a call searches: the resolved one for search; for
\* rag_search the collection whose lexical index ('articles') it queries.
SearchedCollection ==
    IF IsSearch THEN collection
    ELSE CHOOSE c \in collections : c.meili_index_name = "articles"

\* C12: a returned vector hit is a chunk of the searched collection and a
\* returned lexical hit is a document of that collection's own index; no
\* chunk stored for another collection is returned, also when the two
\* collections share the table chunks.
C12_CollectionIsolation ==
    Returned =>
        \A i \in DOMAIN result :
            IF result[i].source = "vector"
               THEN ChunkOwners(result[i].id) = {SearchedCollection.id}
               ELSE result[i].id \in meili[SearchedCollection.meili_index_name]

\* The part of C12 that CollectionRAGService.search satisfies.
SearchIsolation == IsSearch => C12_CollectionIsolation

\* ------------------------------------------------ claims on the chunker
Chunked == pc = "chunked"

RECURSIVE FlattenTexts(_)
FlattenTexts(chunk_list) ==
    IF chunk_list = <<>> THEN <<>>
    ELSE Head(chunk_list).text \o FlattenTexts(Tail(chunk_list))

RECURSIVE ContentLines(_)
ContentLines(text) ==
    IF text = <<>> THEN <<>>
    ELSE IF Head(text).kind = "blank" THEN ContentLines(Tail(text))
    ELSE <<Head(text)>> \o ContentLines(Tail(text))

\* The chunks the pass over the lines produced, before the paragraph split.
LineChunks == LinePass(SplitLines(markdown_content), 1, <<>>, <<>>, <<>>, 0)

\* C13: the lines with content of the chunk texts, concatenated in the order
\* of the chunks, are the lines with content of the document, each once and
\* in the document's order, also when a chunk was split by paragraphs.
C13_Reconstruction ==
    Chunked =>
        ContentLines(FlattenTexts(processed_chunks))
            = ContentLines(SplitLines(markdown_content))

\* A chunk of two paragraphs was over the budget and was split in two.
C13_Witness ==
    /\ Chunked
    /\ Len(LineChunks) = 1
    /\ Len(Paragraphs(LineChunks[1].text)) = 2
    /\ Len(processed_chunks) = 2

\* C14: the token count of the text of every chunk is at most max_tokens,
\* except for a chunk that is one paragraph.
C14_TokenBudget ==
    Chunked =>
        \A i \in DOMAIN processed_chunks :
            \/ token_count(processed_chunks[i].text) <= max_tokens
            \/ Len(Paragraphs(processed_chunks[i].text)) = 1

HeadingLinesOf(text) == {i \in DOMAIN text : text[i].kind = "heading"}

\* The line number of the heading that opens the section of line n of the
\* document, 0 before the first heading.
SectionOf(n) ==
    LET above == {i \in 1..n : markdown_content[i].kind = "heading"}
    IN IF above = {} THEN 0 ELSE CHOOSE i \in above : \A j \in above : j <= i

C16_LocalDeterministic ==
    \A x, y \in embed_log : x.text = y.text => x.vector = y.vector

\* Within one interpreter process the vector is fixed by the text.
LocalDeterministicInProcess ==
    \A x, y \in embed_log :
        (x.text = y.text /\ x.process = y.process) => x.vector = y.vector

\* C17: embed returns one vector per input text, the i-th vector made from
\* the i-th text, whatever the number of texts and the order in which the
\* batches finished.
C17_OrderPreserved ==
    pc = "embed_returned" =>
        /\ Len(embeddings) = Len(embed_texts)
        /\ \A i \in DOMAIN embed_texts : embeddings[i].embedding_of = embed_texts[i]

\* Three batches, the last one short, finished in the reverse order.
C17_Witness ==
    /\ pc = "embed_returned"
    /\ Len(embed_texts) = 2 * batch_size + 1
    /\ completed = <<3, 2, 1>>

\* C18: when the provider call of a batch has failed, embed does not return:
\* no list of vectors, shorter or padded, is handed to the caller.
C18_BatchFailure ==
    (\E b \in DOMAIN batch_status : batch_status[b] = "failed") =>
        /\ pc \in {"gather", "embed_raised"}
        /\ embeddings = None

\* One batch returned its vectors, another failed, and embed raised.
C18_Witness ==
    /\ pc = "embed_raised"
    /\ embeddings = None
    /\ \E b \in DOMAIN batch_status : batch_status[b] = "done"
    /\ \E b \in DOMAIN batch_status : batch_status[b] = "failed"

\* ------------------------------------- claims on the order of the searches
\* An entry of calls is written when the awaited call is over.
Finished(service) == service \in Range(calls)
InCall == pc \notin {"idle", "done"}

\* C19: within one search call neither search is over while the other has
\* not been started (a vector search skipped for want of an embedding
\* aside), and fusion starts only after both are over.
C19_FanOutJoin ==
    /\ (InCall /\ Finished("vector")) => Finished("lexical")
    /\ (InCall /\ Finished("lexical")) => (Finished("vector") \/ "embed" \in failed)
    /\ pc \in {"fuse", "rag_fuse"} => Finished("lexical")

\* What the code does: the lexical search is awaited after the vector
\* search, and fusion after the lexical search.
SearchesInSequence ==
    /\ \A i, j \in DOMAIN calls : (calls[i] = "vector" /\ calls[j] = "lexical") => i < j
    /\ pc \in {"fuse", "rag_fuse", "rerank", "return"} => Finished("lexical")

\* ------------------------------------------------ claims on the reranker
\* The search called the rerank service and the service answered.
RerankSucceeded ==
    /\ Returned
    /\ IsSearch
    /\ "rerank" \in Range(calls)
    /\ "rerank" \notin failed

FusedCandidates == SubSeq(fused_results, 1, Min(2 * request.top_k, Len(fused_results)))

\* C20: after a successful rerank the hits returned are, in the order of the
\* service's answer, the candidates (the first 2 * top_k fused results) at
\* the indices the service reported, each with all its fields as they were
\* plus the rerank score; an index out of range gives no hit; and the texts
\* sent were one per candidate, in the candidates' order, each a prefix of at
\* most 4000 characters of that candidate's text.
C20_RerankMapping ==
    RerankSucceeded =>
        LET InRange(r) == 0 <= r.index /\ r.index < Len(FusedCandidates)
            valid == SelectSeq(response.results, InRange)
        IN /\ Len(result) = Len(valid)
           /\ \A i \in DOMAIN result :
                 result[i] = [rerank_score |-> valid[i].relevance_score]
                                 @@ FusedCandidates[valid[i].index + 1]
           /\ Len(doc_texts) = Len(FusedCandidates)
           /\ \A j \in DOMAIN doc_texts :
                 /\ doc_texts[j].of = DocText(FusedCandidates[j]).of
                 /\ doc_texts[j].chars <= RERANK_TEXT_LIMIT
                 /\ doc_texts[j].chars <= DocText(FusedCandidates[j]).chars

\* The service reported one index out of range and the index of a candidate
\* whose text was cut before it was sent.
C20_Witness ==
    /\ RerankSucceeded
    /\ Len(result) = 1
    /\ DocText(result[1]).chars > RERANK_TEXT_LIMIT
    /\ result[1] # FusedCandidates[1]
    /\ \E i \in DOMAIN response.results :
          response.results[i].index >= Len(FusedCandidates)

\* ------------------------------------------- claims on the heading path
\* The path in force at line n of the document, as the claim words it: each
\* heading of level L with text T keeps the first L-1 elements (all of them
\* if there are fewer) and adds T.
RECURSIVE PathAt(_)
PathAt(n) ==
    IF n = 0 THEN <<>>
    ELSE LET line == markdown_content[n]
             before == PathAt(n - 1)
         IN IF line.kind # "heading" THEN before
            ELSE (IF Len(before) < line.level - 1 THEN before
                  ELSE SubSeq(before, 1, line.level - 1)) \o <<line.text>>

\* The elements of a path joined with ' > '.
Unjoined(heading_path) ==
    [i \in 1..((Len(heading_path) + 1) \div 2) |-> heading_path[2 * i - 1]]

\* C21: every chunk carries the path in force at its lines, joined with
\* ' > '; a chunk before the first heading carries the empty string.
C21_HeadingPath ==
    Chunked =>
        \A i \in DOMAIN processed_chunks :
            LET heading_path == processed_chunks[i].heading_path
                first == processed_chunks[i].text[1].n
            IN /\ Unjoined(heading_path) = PathAt(first)
               /\ \A j \in DOMAIN heading_path : (j % 2 = 0) => heading_path[j] = " > "
               /\ SectionOf(first) = 0 => heading_path = <<>>

\* A level-3 heading right under a level-1 heading keeps the whole path;
\* text before the first heading has the empty path.
C21_Witness ==
    /\ Chunked
    /\ Len(processed_chunks) = 3
    /\ processed_chunks[1].heading_path = <<>>
    /\ processed_chunks[2].heading_path = <<"A">>
    /\ processed_chunks[3].heading_path = <<"A", " > ", "B">>
    /\ processed_chunks[3].text[1].level = 3

\* The line numbers of the headings listed in the path in force at line n:
\* the update of line 42 applied to line numbers instead of texts.
RECURSIVE HeadingLinePath(_)
HeadingLinePath(n) ==
    IF n = 0 THEN <<>>
    ELSE IF markdown_content[n].kind = "heading"
         THEN NewHeadingPath(HeadingLinePath(n - 1), markdown_content[n].level, n)
         ELSE HeadingLinePath(n - 1)

\* C22: in the heading_path of every chunk the levels of the headings
\* listed increase strictly from left to right.
C22_AncestorLevels ==
    Chunked =>
        \A i \in DOMAIN processed_chunks :
            LET listed == HeadingLinePath(processed_chunks[i].text[1].n)
            IN \A a, b \in DOMAIN listed :
                  a < b => markdown_content[listed[a]].level < markdown_content[listed[b]].level

\* The headings listed by HeadingLinePath are the ones the chunk names.
ListedHeadingsNamed ==
    Chunked =>
        \A i \in DOMAIN processed_chunks :
            LET listed == HeadingLinePath(processed_chunks[i].text[1].n)
            IN Unjoined(processed_chunks[i].heading_path)
                   = [a \in DOMAIN listed |-> markdown_content[listed[a]].text]

\* ------------------------------------------------ claims on blank chunks
\* C23: no chunk, sub-chunks of the paragraph split included, has a text
\* that is empty or white space only, and a document that is empty or white
\* space only gives no chunk.
C23_NoBlankChunk ==
    Chunked =>
        /\ \A i \in DOMAIN processed_chunks :
              \E j \in DOMAIN processed_chunks[i].text :
                  processed_chunks[i].text[j].kind # "blank"
        /\ (\A n \in DOMAIN markdown_content : markdown_content[n].kind = "blank") =>
              processed_chunks = <<>>

\* A chunk with a line of blanks between its two paragraphs went through
\* the paragraph split.
C23_Witness ==
    /\ Chunked
    /\ Len(markdown_content) = 3
    /\ markdown_content[2] = SpaceLine
    /\ Len(LineChunks) = 1
    /\ token_count(LineChunks[1].text) > max_tokens
    /\ Len(Paragraphs(LineChunks[1].text)) = 2
    /\ Len(processed_chunks) = 1

\* A document of blank lines only gave no chunk.
BlankDocumentChunked ==
    /\ Chunked
    /\ markdown_content = <<SpaceLine, BlankLine>>
    /\ processed_chunks = <<>>

\* ---------------------------------------------------------------------------
\* Indexing, upload and delete operations on the stores
\* (services/indexers.py, services/visa_indexer.py, routers/visa.py,
\* routers/admin.py).  Up to MaxOps operations run concurrently; each one is a
\* handler applied to one document, and steps from statement to statement.
\* ---------------------------------------------------------------------------
MaxOps == 2

Handlers ==
    {"upsert_article", "index_document", "update_document",
     "upload_visa_article", "delete_general_article", "delete_visa_article"}

\* The documents the operations are applied to: a Notion page already ingested
\* as article a1, and the visa document whose slug is already stored as v1.
GeneralPages == {"a1"}
VisaSlugs == {"v1"}

\* upload_visa_article: article_id = uuid.uuid4(), a new id each call.
uuid4(op) == "u" \o ToString(op)

DocsOf(handler, op) ==
    IF handler \in {"upsert_article", "delete_general_article"} THEN GeneralPages
    ELSE IF handler = "upload_visa_article" THEN {uuid4(op)}
    ELSE VisaSlugs

FirstStep(handler) ==
    CASE handler = "upsert_article" -> "embed"
      [] handler = "index_document" -> "create_article"
      [] handler = "update_document" -> "delete_old"
      [] handler = "upload_visa_article" -> "insert_article"
      [] handler = "delete_general_article" -> "delete_chunks"
      [] handler = "delete_visa_article" -> "delete_chunks"

\* The table a handler stores the chunks of a document in.
StoredChunks(handler, doc) ==
    IF handler \in {"upsert_article", "delete_general_article"}
    THEN {c \in chunks : c.article_id = doc}
    ELSE IF handler = "upload_visa_article"
    THEN {c \in chunks_visa : c.article_id = doc}
    ELSE {c \in visa_chunks : c.article_id = doc}

IdleOp == [handler |-> None, doc |-> None, step |-> "idle", before |-> {}]

\* Operation op ingests its own version of the document: content_md names the
\* operation, and to_chunks splits it into NumChunks(op) chunks.
ContentOf(doc, op) == Text(doc \o " v" \o ToString(op), 1500)
NumChunks(op) == op
ChunkText(doc, op, i) == Text(doc \o " v" \o ToString(op) \o " #" \o ToString(i), 300)

\* The rows INSERT INTO <chunk table> adds: chunk_id is generated by the
\* database, fresh for every row.
NewChunkRows(doc, op) ==
    { [chunk_id |-> "op" \o ToString(op) \o "." \o ToString(i),
       article_id |-> doc, text |-> ChunkText(doc, op, i)] : i \in 1..NumChunks(op) }

NewChunkVisaRows(doc, op) ==
    { [chunk_id |-> "op" \o ToString(op) \o "." \o ToString(i),
       article_id |-> doc, collection_id |-> "col_visa",
       text |-> ChunkText(doc, op, i)] : i \in 1..NumChunks(op) }

\* INSERT INTO <table> ... ON CONFLICT (<key>) DO UPDATE SET content_md = ...:
\* the row of the key keeps its id and its collection_id; a new row gets no
\* collection_id, because neither statement names the column.
UpsertRow(rows, table, doc, op) ==
    IF \E a \in rows : a.table = table /\ a.id = doc
    THEN { IF a.table = table /\ a.id = doc
           THEN [a EXCEPT !.content_md = ContentOf(doc, op)] ELSE a : a \in rows }
    ELSE rows \cup { [id |-> doc, table |-> table, collection_id |-> None,
                      title |-> Text("title " \o doc, 20),
                      content_md |-> ContentOf(doc, op)] }

\* index.add_documents([{id: str(article_id), ...}]): adds or replaces by id.
add_documents(index, doc) == [meili EXCEPT ![index] = @ \cup {doc}]

IndexInit ==
    /\ pc = "indexing"
    /\ StoreInit
    /\ CallIdle
    /\ FuseIdle
    /\ ChunkIdle
    /\ EmbedIdle
    /\ RerankIdle
    /\ ops = [o \in 1..MaxOps |-> IdleOp]
    /\ article_lock = {}
    /\ _ingestion_running = FALSE
    /\ tasks = <<>>

indexFrame ==
    UNCHANGED <<collections, pc, fuseVars, callVars, chunkVars, embedVars, rerankVars,
                _ingestion_running, tasks>>

At(o, handlers, step) == ops[o].handler \in handlers /\ ops[o].step = step
Goto(o, step) == ops' = [ops EXCEPT ![o].step = step]

\* A request arrives: a handler starts on a document.
StartOp ==
    \E o \in 1..MaxOps, handler \in Handlers :
      \E doc \in DocsOf(handler, o) :
        /\ ops[o].step = "idle"
        /\ ops' = [ops EXCEPT ![o] = [handler |-> handler, doc |-> doc,
                                      step |-> FirstStep(handler),
                                      before |-> StoredChunks(handler, doc)]]
        /\ UNCHANGED <<articles, chunks, chunks_visa, visa_chunks, meili, article_lock>>
        /\ indexFrame

\* upsert_article, lines 47-52: to_chunks and embed run before any statement;
\* embed raises (the caller's transaction block then has nothing to undo).
UpsertEmbed ==
    \E o \in 1..MaxOps :
        /\ At(o, {"upsert_article"}, "embed")
        /\ \/ Goto(o, "upsert")
           \/ Goto(o, "embed_failed")
        /\ UNCHANGED <<articles, chunks, chunks_visa, visa_chunks, meili, article_lock>>
        /\ indexFrame

\* upsert_article, lines 55-109, run inside the caller's conn.transaction():
\* INSERT INTO articles ... ON CONFLICT takes the lock of the article row, so a
\* second transaction on the same page waits here until the first one ends.
\* The statements up to the commit are not visible outside the transaction.
UpsertArticle ==
    \E o \in 1..MaxOps :
        /\ At(o, {"upsert_article"}, "upsert")
        /\ ops[o].doc \notin article_lock
        /\ article_lock' = article_lock \cup {ops[o].doc}
        /\ Goto(o, "meili")
        /\ UNCHANGED <<articles, chunks, chunks_visa, visa_chunks, meili>>
        /\ indexFrame

\* upsert_article, lines 112-117: _index_to_meilisearch writes the document
\* at once (Meilisearch is outside the transaction); when it raises the
\* transaction is rolled back.
UpsertMeili ==
    \E o \in 1..MaxOps :
        /\ At(o, {"upsert_article"}, "meili")
        /\ \/ /\ meili' = add_documents("articles", ops[o].doc)
              /\ Goto(o, "commit")
              /\ UNCHANGED article_lock
           \/ /\ article_lock' = article_lock \ {ops[o].doc}
              /\ Goto(o, "failed")
              /\ UNCHANGED meili
        /\ UNCHANGED <<articles, chunks, chunks_visa, visa_chunks>>
        /\ indexFrame

\* The transaction commits: the article row is upserted, the chunks of the
\* article are deleted (lines 84-88) and the new ones inserted (lines 91-109).
UpsertCommit ==
    \E o \in 1..MaxOps :
        /\ At(o, {"upsert_article"}, "commit")
        /\ articles' = UpsertRow(articles, "articles", ops[o].doc, o)
        /\ chunks' = {c \in chunks : c.article_id # ops[o].doc}
                        \cup NewChunkRows(ops[o].doc, o)
        /\ article_lock' = article_lock \ {ops[o].doc}
        /\ Goto(o, "done")
        /\ UNCHANGED <<chunks_visa, visa_chunks, meili>>
        /\ indexFrame

\* index_document, lines 55-62: _create_article upserts the visa_articles row
\* on its slug; the statement commits by itself.
VisaCreateArticle ==
    \E o \in 1..MaxOps :
        /\ At(o, {"index_document"}, "create_article")
        /\ articles' = UpsertRow(articles, "visa_articles", ops[o].doc, o)
        /\ Goto(o, "chunk_embed")
        /\ UNCHANGED <<chunks, chunks_visa, visa_chunks, meili, article_lock>>
        /\ indexFrame

\* update_document, lines 183-187: the chunks of the document are deleted
\* before the new content is chunked and embedded.
UpdateDeleteOld ==
    \E o \in 1..MaxOps :
        /\ At(o, {"update_document"}, "delete_old")
        /\ visa_chunks' = {c \in visa_chunks : c.article_id # ops[o].doc}
        /\ Goto(o, "chunk_embed")
        /\ UNCHANGED <<articles, chunks, chunks_visa, meili, article_lock>>
        /\ indexFrame

\* index_document lines 65-72, update_document lines 190-192: to_chunks, then
\* embed, which returns or raises.
VisaEmbed ==
    \E o \in 1..MaxOps :
        /\ At(o, {"index_document", "update_document"}, "chunk_embed")
        /\ \/ Goto(o, "store_delete")
           \/ Goto(o, "embed_failed")
        /\ UNCHANGED <<articles, chunks, chunks_visa, visa_chunks, meili, article_lock>>
        /\ indexFrame

\* _store_chunks, lines 129-133: DELETE FROM visa_chunks on a connection of
\* its own, committed by itself.
VisaDeleteChunks ==
    \E o \in 1..MaxOps :
        /\ At(o, {"index_document", "update_document"}, "store_delete")
        /\ visa_chunks' = {c \in visa_chunks : c.article_id # ops[o].doc}
        /\ Goto(o, "store_insert")
        /\ UNCHANGED <<articles, chunks, chunks_visa, meili, article_lock>>
        /\ indexFrame

\* _store_chunks, lines 136-165: INSERT INTO visa_chunks, one executemany on
\* another connection.
VisaInsertChunks ==
    \E o \in 1..MaxOps :
        /\ At(o, {"index_document", "update_document"}, "store_insert")
        /\ visa_chunks' = visa_chunks \cup NewChunkRows(ops[o].doc, o)
        /\ Goto(o, IF ops[o].handler = "update_document" THEN "update_article" ELSE "done")
        /\ UNCHANGED <<articles, chunks, chunks_visa, meili, article_lock>>
        /\ indexFrame

\* update_document, lines 197-206: UPDATE visa_articles SET content_md = ...
UpdateArticle ==
    \E o \in 1..MaxOps :
        /\ At(o, {"update_document"}, "update_article")
        /\ articles' = { IF a.table = "visa_articles" /\ a.id = ops[o].doc
                         THEN [a EXCEPT !.content_md = ContentOf(ops[o].doc, o)]
                         ELSE a : a \in articles }
        /\ Goto(o, "done")
        /\ UNCHANGED <<chunks, chunks_visa, visa_chunks, meili, article_lock>>
        /\ indexFrame

\* upload_visa_article, lines 59-87: the collection whose key is 'visa' is
\* looked up and a new visa_articles row is inserted with its id.
UploadInsertArticle ==
    \E o \in 1..MaxOps :
        /\ At(o, {"upload_visa_article"}, "insert_article")
        /\ articles' = articles \cup
              { [id |-> ops[o].doc, table |-> "visa_articles", collection_id |-> "col_visa",
                 title |-> Text("title " \o ops[o].doc, 20),
                 content_md |-> ContentOf(ops[o].doc, o)] }
        /\ Goto(o, "upload_embed")
        /\ UNCHANGED <<chunks, chunks_visa, visa_chunks, meili, article_lock>>
        /\ indexFrame

\* upload_visa_article, lines 90-114: to_chunks and embed; a failure becomes
\* the HTTP 500 of the handler.
UploadEmbed ==
    \E o \in 1..MaxOps :
        /\ At(o, {"upload_visa_article"}, "upload_embed")
        /\ \/ Goto(o, "upload_insert")
           \/ Goto(o, "embed_failed")
        /\ UNCHANGED <<articles, chunks, chunks_visa, visa_chunks, meili, article_lock>>
        /\ indexFrame

\* upload_visa_article, lines 117-124: INSERT INTO chunks_visa.
UploadInsertChunks ==
    \E o \in 1..MaxOps :
        /\ At(o, {"upload_visa_article"}, "upload_insert")
        /\ chunks_visa' = chunks_visa \cup NewChunkVisaRows(ops[o].doc, o)
        /\ Goto(o, "upload_meili")
        /\ UNCHANGED <<articles, chunks, visa_chunks, meili, article_lock>>
        /\ indexFrame

\* upload_visa_article, lines 127-162: the document is added to the index
\* 'visa_articles'; a failure is caught and logged.
UploadMeili ==
    \E o \in 1..MaxOps :
        /\ At(o, {"upload_visa_article"}, "upload_meili")
        /\ \/ meili' = add_documents("visa_articles", ops[o].doc)
           \/ UNCHANGED meili
        /\ Goto(o, "done")
        /\ UNCHANGED <<articles, chunks, chunks_visa, visa_chunks, article_lock>>
        /\ indexFrame

\* delete_general_article line 596, delete_visa_article line 654: the first
\* statement deletes the chunk rows of the article (it waits for a
\* transaction that holds the article).
DeleteChunks ==
    \E o \in 1..MaxOps :
        /\ At(o, {"delete_general_article", "delete_visa_article"}, "delete_chunks")
        /\ ops[o].doc \notin article_lock
        /\ IF ops[o].handler = "delete_general_article"
           THEN /\ chunks' = {c \in chunks : c.article_id # ops[o].doc}
                /\ UNCHANGED visa_chunks
           ELSE /\ visa_chunks' = {c \in visa_chunks : c.article_id # ops[o].doc}
                /\ UNCHANGED chunks
        /\ Goto(o, "delete_article")
        /\ UNCHANGED <<articles, chunks_visa, meili, article_lock>>
        /\ indexFrame

\* delete_general_article line 598, delete_visa_article line 656: the second
\* statement deletes the article row.  Rows of other tables that refer to the
\* article follow the foreign keys of the schema, which is not part of the
\* repository: they are removed with it (cascade), stay, or make the
\* statement fail (restrict).  No statement addresses Meilisearch.
DeleteArticle ==
    \E o \in 1..MaxOps, fk \in {"cascade", "keep", "restrict"} :
        LET doc == ops[o].doc
            table == IF ops[o].handler = "delete_general_article"
                     THEN "articles" ELSE "visa_articles"
            referring == IF table = "articles"
                         THEN {c \in chunks : c.article_id = doc}
                         ELSE {c \in chunks_visa : c.article_id = doc}
                                \cup {c \in visa_chunks : c.article_id = doc}
        IN  /\ At(o, {"delete_general_article", "delete_visa_article"}, "delete_article")
            /\ doc \notin article_lock
            /\ IF fk = "restrict" /\ referring # {}
               THEN /\ Goto(o, "failed")
                    /\ UNCHANGED <<articles, chunks, chunks_visa, visa_chunks>>
               ELSE /\ articles' = {a \in articles : ~(a.table = table /\ a.id = doc)}
                    /\ IF fk = "cascade"
                       THEN /\ chunks' = IF table = "articles"
                                         THEN {c \in chunks : c.article_id # doc}
                                         ELSE chunks
                            /\ chunks_visa' = IF table = "visa_articles"
                                              THEN {c \in chunks_visa : c.article_id # doc}
                                              ELSE chunks_visa
                            /\ visa_chunks' = IF table = "visa_articles"
                                              THEN {c \in visa_chunks : c.article_id # doc}
                                              ELSE visa_chunks
                       ELSE UNCHANGED <<chunks, chunks_visa, visa_chunks>>
                    /\ Goto(o, "done")
            /\ UNCHANGED <<meili, article_lock>>
            /\ indexFrame

IndexNext ==
    \/ StartOp
    \/ UpsertEmbed
    \/ UpsertArticle
    \/ UpsertMeili
    \/ UpsertCommit
    \/ VisaCreateArticle
    \/ UpdateDeleteOld
    \/ VisaEmbed
    \/ VisaDeleteChunks
    \/ VisaInsertChunks
    \/ UpdateArticle
    \/ UploadInsertArticle
    \/ UploadEmbed
    \/ UploadInsertChunks
    \/ UploadMeili
    \/ DeleteChunks
    \/ DeleteArticle

SpecIndex == IndexInit /\ [][IndexNext]_vars

\* ---------------------------------------------------------------------------
\* Claims about the indexing, upload and delete operations
\* ---------------------------------------------------------------------------
IndexHandlers == {"upsert_article", "index_document", "update_document"}
Started == {o \in 1..MaxOps : ops[o].step # "idle"}
Completed(o) == ops[o].step = "done"

\* Every operation that was requested is an index operation, all of them work
\* on the one document doc, and all of them have completed.
OnlyIndexed(doc) ==
    /\ pc = "indexing"
    /\ Started # {}
    /\ \A o \in Started :
          ops[o].handler \in IndexHandlers /\ ops[o].doc = doc /\ Completed(o)

\* The chunk store of the document holds exactly the rows one of the
\* operations inserted.
HoldsOneVersion(doc) ==
    \E o \in Started :
        StoredChunks(ops[o].handler, doc) = NewChunkRows(doc, o)

\* C24: after index operations on the same document, overlapping or not, once
\* all of them have completed the chunk store holds exactly the chunks of one
\* ingested version: no chunk of an older version remains and none is stored twice.
C24_OneVersionStored ==
    \A doc \in GeneralPages \cup VisaSlugs : OnlyIndexed(doc) => HoldsOneVersion(doc)

DeleteHandlers == {"delete_general_article", "delete_visa_article"}

\* The Meilisearch index searches of the document's collection read.
LexicalIndexOf(handler) ==
    IF handler = "delete_general_article" THEN "articles" ELSE "visa_articles"

\* The chunk rows of the document in the table vector search reads.
VectorStoreRows(handler, doc) ==
    IF handler = "delete_general_article"
    THEN {c \in chunks : c.article_id = doc}
    ELSE {c \in chunks_visa : c.article_id = doc}

\* C25: after an admin delete of an article (the only operation requested),
\* none of its chunks remains in the vector store and its document is no
\* longer in the lexical index, so no later search returns a hit for it.
C25_DeletedEverywhere ==
    \A o \in 1..MaxOps :
        (/\ pc = "indexing"
         /\ Started = {o}
         /\ ops[o].handler \in DeleteHandlers
         /\ Completed(o))
        => /\ VectorStoreRows(ops[o].handler, ops[o].doc) = {}
           /\ ops[o].doc \notin meili[LexicalIndexOf(ops[o].handler)]

IngestHandlers ==
    {"upsert_article", "index_document", "update_document", "upload_visa_article"}

\* The collection a handler ingests into: IndexerService serves the help
\* center, VisaIndexerService and upload_visa_article the visa collection.
CollectionKeyOf(handler) == IF handler = "upsert_article" THEN "help_center" ELSE "visa"

\* The chunk texts of operation o's document among the rows the vector query
\* of CollectionRAGService.search reads for the collection.
ReachableTexts(o) ==
    {c.text : c \in {r \in UNION {vector_rows(col) :
                                    col \in get_collection(CollectionKeyOf(ops[o].handler))} :
                       r.article_id = ops[o].doc}}

\* C26: every ingestion path writes a collection's chunks to the store that
\* search reads for that collection: once an ingestion of a document (the only
\* operation requested) has completed, its chunks are among the rows the
\* vector search of the collection reads.
C26_IngestedReachable ==
    \A o \in 1..MaxOps :
        (/\ pc = "indexing"
         /\ Started = {o}
         /\ ops[o].handler \in IngestHandlers
         /\ Completed(o))
        => {ChunkText(ops[o].doc, o, i) : i \in 1..NumChunks(o)} \subseteq ReachableTexts(o)

ReindexHandlers == {"upsert_article", "update_document"}

\* C30: when embedding fails during a re-index of a document (the only
\* operation requested), the chunks that were stored for the document before
\* the call are still stored after it.
C30_ChunksSurviveEmbedFailure ==
    \A o \in 1..MaxOps :
        (/\ pc = "indexing"
         /\ Started = {o}
         /\ ops[o].handler \in ReindexHandlers
         /\ ops[o].step = "embed_failed"
         /\ ops[o].before # {})
        => ops[o].before \subseteq StoredChunks(ops[o].handler, ops[o].doc)

\* ---------------------------------------------------------------------------
\* Dimensions of the vector tables
\* ---------------------------------------------------------------------------
\* search, lines 226-234: the table the vector query of a collection reads.
vector_table(col) == IF col.collection_key = "visa" THEN "chunks_visa" ELSE "chunks"

\* The model whose vectors a table holds: IndexerService embeds the rows of
\* chunks with EmbeddingsService() (the default model), upload_visa_article
\* embeds the rows of chunks_visa with model_type="text-embedding-3-small".
TableModel(table) == "text-embedding-3-small"
TableDimensions(table) == Dimensions(TableModel(table))

\* C27: vector search is always routed to a store whose dimensionality equals
\* the collection's embedding_dimensions, which is also the dimension of the
\* query embedding; two collections with different embedding_dimensions are
\* never served from the same table.
C27_DimensionRouting ==
    /\ (IsSearch /\ "vector" \in Range(calls))
        => /\ TableDimensions(vector_table(collection)) = collection.embedding_dimensions
           /\ Dimensions(collection.embedding_model) = collection.embedding_dimensions
    /\ \A c1, c2 \in collections :
          c1.embedding_dimensions # c2.embedding_dimensions
            => vector_table(c1) # vector_table(c2)

\* ---------------------------------------------------------------------------
\* Retrieval and the stores
\* ---------------------------------------------------------------------------
\* C28: a retrieval call (search, rag_search) leaves the article rows, the
\* chunk rows and the documents of the lexical indexes unchanged in every one
\* of its steps, whether it succeeds, degrades or raises.
C28_RetrievalReadsOnly ==
    [][<<articles, chunks, chunks_visa, visa_chunks, meili>>'
          = <<articles, chunks, chunks_visa, visa_chunks, meili>>]_vars

\* A search that degraded (its vector query raised) has returned hits, and
\* the stores hold what they held before the call.
C28_Witness ==
    /\ Returned
    /\ "vector" \in failed
    /\ result # <<>>
    /\ articles = ArticleRows
    /\ chunks = ChunkRows
    /\ chunks_visa = ChunkVisaRows
    /\ meili = MeiliIndexes

\* A call that raised, with the stores as they were.
C28_RaisedWitness ==
    /\ pc = "done"
    /\ outcome = "raised"
    /\ "embed" \in failed
    /\ articles = ArticleRows
    /\ chunks = ChunkRows
    /\ meili = MeiliIndexes

\* ---------------------------------------------------------------------------
\* Ingestion runs (routers/ingestion.py): requests queue run_ingestion_task as
\* a background task; the tasks of one process share the event loop and the
\* module-level flag _ingestion_running.
\* ---------------------------------------------------------------------------
MaxTasks == 3
MaxPages == 2

\* The Notion pages a run finds changed.
IngestPages == {"a1", "a2"}

NoTask == [step |-> "none", pages |-> 0]

IngestInit ==
    /\ pc = "ingesting"
    /\ StoreInit
    /\ CallIdle
    /\ FuseIdle
    /\ ChunkIdle
    /\ EmbedIdle
    /\ RerankIdle
    /\ ops = <<>>
    /\ article_lock = {}
    /\ _ingestion_running = FALSE
    /\ tasks = [t \in 1..MaxTasks |-> NoTask]

ingestFrame ==
    UNCHANGED <<collections, chunks_visa, visa_chunks, pc, fuseVars, callVars, chunkVars,
                embedVars, rerankVars, ops, article_lock>>

\* trigger_ingestion, lines 228-241: answers 'already_running' while the flag
\* is set, and queues the task otherwise.
TriggerIngestion ==
    \E t \in 1..MaxTasks :
        /\ tasks[t].step = "none"
        /\ tasks' = [tasks EXCEPT ![t].step =
                        IF _ingestion_running THEN "already_running" ELSE "queued"]
        /\ UNCHANGED <<articles, chunks, meili, _ingestion_running>>
        /\ ingestFrame

\* ingestion_webhook, lines 301-320: queues the task whatever the flag says.
IngestionWebhook ==
    \E t \in 1..MaxTasks :
        /\ tasks[t].step = "none"
        /\ tasks' = [tasks EXCEPT ![t].step = "queued"]
        /\ UNCHANGED <<articles, chunks, meili, _ingestion_running>>
        /\ ingestFrame

\* Mutant of RunEntry: the run does not look at the flag.
RunEntry_Unchecked(running) == "running"

\* run_ingestion_task, lines 44-48: a run that finds the flag set returns
\* 'skipped'; otherwise it goes on.  No await separates the test from the
\* assignment, so no other task runs between them.
RunEntry(running) == IF running THEN "skipped" ELSE "running"

RunStart ==
    \E t \in 1..MaxTasks :
        /\ tasks[t].step = "queued"
        /\ tasks' = [tasks EXCEPT ![t].step = RunEntry(_ingestion_running)]
        /\ _ingestion_running' = (_ingestion_running \/ RunEntry(_ingestion_running) = "running")
        /\ UNCHANGED <<articles, chunks, meili>>
        /\ ingestFrame

\* process_page, lines 117-148: one page is fetched and upserted inside a
\* transaction; the transaction commits, or an exception is caught, nothing
\* is written and the page counts as skipped.
ProcessPage ==
    \E t \in 1..MaxTasks, page \in IngestPages :
        /\ tasks[t].step = "running"
        /\ tasks[t].pages < MaxPages
        /\ tasks' = [tasks EXCEPT ![t].pages = @ + 1]
        /\ \/ /\ articles' = UpsertRow(articles, "articles", page, t)
              /\ chunks' = {c \in chunks : c.article_id # page} \cup NewChunkRows(page, t)
              /\ meili' = add_documents("articles", page)
           \/ UNCHANGED <<articles, chunks, meili>>
        /\ UNCHANGED _ingestion_running
        /\ ingestFrame

\* run_ingestion_task, lines 196-214: the run returns 'completed', and the
\* outer finally clears the flag.
RunCompletes ==
    \E t \in 1..MaxTasks :
        /\ tasks[t].step = "running"
        /\ tasks' = [tasks EXCEPT ![t].step = "completed"]
        /\ _ingestion_running' = FALSE
        /\ UNCHANGED <<articles, chunks, meili>>
        /\ ingestFrame

\* run_ingestion_task, lines 208-214: an exception inside the try block makes
\* the run return 'failed', and the outer finally clears the flag.
RunFails ==
    \E t \in 1..MaxTasks :
        /\ tasks[t].step = "running"
        /\ tasks' = [tasks EXCEPT ![t].step = "failed"]
        /\ _ingestion_running' = FALSE
        /\ UNCHANGED <<articles, chunks, meili>>
        /\ ingestFrame

IngestNext ==
    \/ TriggerIngestion
    \/ IngestionWebhook
    \/ RunStart
    \/ ProcessPage
    \/ RunCompletes
    \/ RunFails

SpecIngest == IngestInit /\ [][IngestNext]_vars

Running == {t \in DOMAIN tasks : tasks[t].step = "running"}

C29_ClearedWitness ==
    /\ pc = "ingesting"
    /\ ~_ingestion_running
    /\ \E t1, t2 \in DOMAIN tasks :
          tasks[t1].step = "failed" /\ tasks[t2].step = "skipped"
====
